---- MODULE Spec2Model ----
(***************************************************************************)
(* A model of python-ma's reading layer (src/ihm/reader.py) and of the      *)
(* traversals of ihm.System (src/ihm/__init__.py).                          *)
(*                                                                         *)
(* Python objects live in a heap: an object is its address (identity), its *)
(* class and its attribute dictionary.  Lists and dicts that the code      *)
(* shares by reference (System.software, _IDMapper._obj_by_id) are kept    *)
(* under a reference of their own, so that aliasing is expressible.        *)
(***************************************************************************)
EXTENDS Integers, Sequences, FiniteSets, TLC

VARIABLES
    heap,     \* reader: address -> [cls, attrs]; attrs: attribute name -> value
    dicts,    \* reader: dict reference -> the dict (row id -> address)
    lists,    \* reader: list reference -> the list (sequence of addresses)
    pc,       \* reader: per session, where read() stands
    sys,      \* graph: the list attributes of one ihm.System
    obj,      \* graph: per class, object -> its attributes or, for a list, its items
    call      \* the call made last, with its arguments and its outcome

rvars == <<heap, dicts, lists, pc>>
gvars == <<sys, obj>>
vars == <<heap, dicts, lists, pc, sys, obj, call>>

(***************************************************************************)
(* Bounds of the model.                                                    *)
(***************************************************************************)
NumSessions == 2      \* _SystemReader objects (one per read() session)
NumIds == 2           \* distinct row identifiers in the input
MaxObjs == 2          \* objects constructed by direct make_new calls

Sessions == 1..NumSessions
Ids == {ToString(i) : i \in 1..NumIds}

\* Python's None among attribute values (all attribute values are strings).
None == "None"

\* The call record before any call was made.
NoCall == [op |-> "none"]

(***************************************************************************)
(* Python primitives.                                                      *)
(***************************************************************************)
\* setattr(obj, key, val) on an attribute dictionary; also d[key] = val.
setattr(attrs, key, val) ==
    [k \in (DOMAIN attrs) \cup {key} |-> IF k = key THEN val ELSE attrs[k]]

\* The dict with no entry.
EmptyDict == [k \in {} |-> None]

(***************************************************************************)
(* Constructors.                                                           *)
(***************************************************************************)
\* ihm.System(): id defaults to 'model', title to None.
System_init == [id |-> "model", title |-> None]

\* ihm.Software(name, classification, description, location): type and
\* version take their defaults.
Software_init(initargs) ==
    [name |-> initargs[1], classification |-> initargs[2],
     description |-> initargs[3], location |-> initargs[4],
     type |-> "program", version |-> None]

\* MockObject(x, y) of the mapper's test.
MockObject_init(initargs) == [x |-> initargs[1], y |-> initargs[2]]

\* cls(*initargs)
New(cls, initargs) ==
    IF cls = "Software" THEN Software_init(initargs)
    ELSE MockObject_init(initargs)

(***************************************************************************)
(* _SystemReader and _IDMapper construction.  Session s owns the System at *)
(* address s, that System's software list and one _IDMapper.               *)
(***************************************************************************)
\* System.__init__: self.software = [] is a fresh list for every System.
System_software(s) == s

\* _obj_by_id as one dict shared by every _IDMapper (a class attribute).
IDMapper_obj_by_id_shared(m) == 1

\* _IDMapper.__init__: self._obj_by_id = {} is a fresh dict per instance.
IDMapper_obj_by_id(m) == m

\* _IDMapper.__init__: self.system_list = system_list, where
\* _SystemReader.__init__ passes self.system.software.
IDMapper_system_list(m) == System_software(m)

\* _SystemReader.__init__: self.system = ihm.System()
SystemReader_system(s) == s

(***************************************************************************)
(* The reader's state as one value, so that an operation can be applied to *)
(* the outcome of another.                                                 *)
(***************************************************************************)
St == [heap |-> heap, dicts |-> dicts, lists |-> lists]

\* make_new without the cache lookup: every call constructs, stamps, caches
\* and appends.
make_new_always_constructs(st, m, cls, objid, initargs) ==
    LET d == IDMapper_obj_by_id(m)
        l == IDMapper_system_list(m)
        addr == Len(st.heap) + 1
        newobj == [cls |-> cls,
                   attrs |-> setattr(New(cls, initargs), "_id", objid)]
    IN  [st |-> [heap |-> Append(st.heap, newobj),
                 dicts |-> [st.dicts EXCEPT ![d] = setattr(@, objid, addr)],
                 lists |-> [st.lists EXCEPT ![l] = Append(@, addr)]],
         ret |-> addr]

\* make_new whose cached branch appends the cached object to system_list again.
make_new_appends_on_hit(st, m, cls, objid, initargs) ==
    LET d == IDMapper_obj_by_id(m)
        l == IDMapper_system_list(m)
    IN  IF objid \in DOMAIN st.dicts[d]
        THEN [st |-> [st EXCEPT !.lists[l] = Append(@, st.dicts[d][objid])],
              ret |-> st.dicts[d][objid]]
        ELSE make_new_always_constructs(st, m, cls, objid, initargs)

\* _IDMapper.make_new(cls, objid, initargs) on mapper m: the state after the
\* call and the object returned.
make_new(st, m, cls, objid, initargs) ==
    LET d == IDMapper_obj_by_id(m)
        l == IDMapper_system_list(m)
    IN  IF objid \in DOMAIN st.dicts[d]
        THEN [st |-> st, ret |-> st.dicts[d][objid]]
        ELSE LET addr == Len(st.heap) + 1
                 newobj == [cls |-> cls,
                            attrs |-> setattr(New(cls, initargs), "_id", objid)]
             IN  [st |-> [heap |-> Append(st.heap, newobj),
                          dicts |-> [st.dicts EXCEPT ![d] = setattr(@, objid, addr)],
                          lists |-> [st.lists EXCEPT ![l] = Append(@, addr)]],
                  ret |-> addr]

(***************************************************************************)
(* Inputs of the direct make_new calls (the mapper's test).                *)
(***************************************************************************)
Classes == {"Software", "MockObject"}

InitArgs(cls) ==
    IF cls = "Software"
    THEN {<<None, None, None, None>>}
    ELSE {<<"1", "2">>, <<"3", "4">>}

(***************************************************************************)
(* Initial state: NumSessions _SystemReader objects have been constructed. *)
(***************************************************************************)
ReaderInit ==
    /\ heap = [s \in Sessions |-> [cls |-> "System", attrs |-> System_init]]
    /\ dicts = [m \in Sessions |-> EmptyDict]
    /\ lists = [l \in Sessions |-> << >>]
    /\ pc = [s \in Sessions |-> "reading"]
    /\ sys = << >> /\ obj = << >>
    /\ call = NoCall

\* im.make_new(cls, objid, initargs), called directly.  The model stops
\* constructing once MaxObjs objects exist beside the Systems.
MakeNew(m, cls, objid, initargs) ==
    /\ pc[m] = "reading"
    /\ objid \in DOMAIN dicts[IDMapper_obj_by_id(m)]
          \/ Len(heap) < NumSessions + MaxObjs
    /\ LET r == make_new(St, m, cls, objid, initargs)
       IN  /\ heap' = r.st.heap
           /\ dicts' = r.st.dicts
           /\ lists' = r.st.lists
           /\ call' = [op |-> "make_new", m |-> m, cls |-> cls, objid |-> objid,
                       initargs |-> initargs, ret |-> r.ret]
    /\ UNCHANGED <<pc, sys, obj>>

MapperNext ==
    \E m \in Sessions, cls \in Classes, objid \in Ids :
        \E initargs \in InitArgs(cls) : MakeNew(m, cls, objid, initargs)

SpecMapper == ReaderInit /\ [][MapperNext]_vars

(***************************************************************************)
(* Claims about _IDMapper.                                                 *)
(***************************************************************************)
Cache(m) == dicts[IDMapper_obj_by_id(m)]
OwningList(m) == lists[IDMapper_system_list(m)]
CacheNext(m) == dicts'[IDMapper_obj_by_id(m)]
OwningListNext(m) == lists'[IDMapper_system_list(m)]

\* What one make_new call (the step's call') must do for C1.
C1_Step ==
    /\ \A m \in Sessions : \A X \in DOMAIN Cache(m) :
          X \in DOMAIN CacheNext(m) /\ CacheNext(m)[X] = Cache(m)[X]
    /\ \A a \in 1..Len(heap) : a <= Len(heap') /\ heap'[a] = heap[a]
    /\ call'.op = "make_new" =>
          LET m == call'.m
              X == call'.objid
          IN  IF X \in DOMAIN Cache(m)
              THEN call'.ret = Cache(m)[X] /\ heap' = heap
              ELSE /\ call'.ret = Len(heap) + 1
                   /\ Len(heap') = Len(heap) + 1
                   /\ CacheNext(m)[X] = call'.ret
                   /\ heap'[call'.ret].cls = call'.cls
                   /\ \A k \in DOMAIN New(call'.cls, call'.initargs) :
                         heap'[call'.ret].attrs[k] = New(call'.cls, call'.initargs)[k]

\* C1: for one mapper and one id, every make_new returns the object the first
\* call with that id created, whatever class and arguments the later call
\* passes: the first call caches the object it builds from its arguments, a
\* cache entry never changes, a call with a cached id returns the entry, and
\* no call changes an attribute of an object that exists already.
C1_IdentityStable == [][C1_Step]_vars

\* A later call with another class got the object of the first call back.
C1_Witness ==
    /\ call.op = "make_new"
    /\ heap[call.ret].cls # call.cls
    /\ call.ret = Cache(call.m)[call.objid]

C2_Inv ==
    \A m \in Sessions :
        LET L == OwningList(m)
            D == Cache(m)
        IN  /\ Len(L) = Cardinality(DOMAIN D)
            /\ \A i \in 1..Len(L) :
                  /\ heap[L[i]].attrs["_id"] \in DOMAIN D
                  /\ D[heap[L[i]].attrs["_id"]] = L[i]
            /\ \A i, j \in 1..Len(L) : i # j => L[i] # L[j]

C2_Step ==
    call'.op = "make_new" =>
        LET m == call'.m
            X == call'.objid
        IN  /\ \A n \in Sessions \ {m} : OwningListNext(n) = OwningList(n)
            /\ IF X \in DOMAIN Cache(m)
               THEN OwningListNext(m) = OwningList(m)
               ELSE /\ OwningListNext(m) = Append(OwningList(m), call'.ret)
                    /\ heap'[call'.ret].attrs["_id"] = X

\* C2: the owning list of a mapper holds exactly one object per id requested
\* so far, each stamped with the id it was first requested under, in the
\* order of the first requests: a request for a new id appends its object
\* at the end, a repeat request appends nothing.
C2_OneObjectPerId == [](C2_Inv) /\ [][C2_Step]_vars

\* Two ids, first requested in the order "2", "1", and then a repeat request.
C2_Witness ==
    /\ call.op = "make_new"
    /\ call.ret # Len(heap)
    /\ Len(OwningList(call.m)) = 2
    /\ heap[OwningList(call.m)[1]].attrs["_id"] = "2"
    /\ heap[OwningList(call.m)[2]].attrs["_id"] = "1"

C3_Inv ==
    \A m1, m2 \in Sessions :
        m1 # m2 => \A X \in (DOMAIN Cache(m1)) \cap (DOMAIN Cache(m2)) :
                      Cache(m1)[X] # Cache(m2)[X]

C3_Step ==
    call'.op = "make_new" =>
        \A n \in Sessions \ {call'.m} :
            CacheNext(n) = Cache(n) /\ OwningListNext(n) = OwningList(n)

\* C3: identity caches are not shared: one row id resolved through two
\* mappers (those of two sessions) gives two distinct objects, and a
\* make_new on one mapper changes neither the cache nor the owning list of
\* another mapper.
C3_CachesNotShared == [](C3_Inv) /\ [][C3_Step]_vars

\* The same row id has been resolved through both mappers.
C3_Witness ==
    /\ call.op = "make_new"
    /\ \E m \in Sessions \ {call.m} :
          call.objid \in DOMAIN Cache(m) /\ call.objid \in DOMAIN Cache(call.m)

(***************************************************************************)
(* _Handler._copy_if_present.  keys is the tuple of names; mapkeys is the  *)
(* dict, kept as its items (field, attribute) in iteration order.          *)
(***************************************************************************)
\* The loop over keys that copies data.get(key), so that an absent field
\* sets None.
RECURSIVE copy_keys_sets_absent(_, _, _, _)
copy_keys_sets_absent(attrs, data, keys, i) ==
    IF i > Len(keys) THEN attrs
    ELSE copy_keys_sets_absent(
             setattr(attrs, keys[i],
                     IF keys[i] \in DOMAIN data THEN data[keys[i]] ELSE None),
             data, keys, i + 1)

\* for key in keys: if key in data: setattr(obj, key, data[key])
RECURSIVE copy_keys(_, _, _, _)
copy_keys(attrs, data, keys, i) ==
    IF i > Len(keys) THEN attrs
    ELSE copy_keys(IF keys[i] \in DOMAIN data
                   THEN setattr(attrs, keys[i], data[keys[i]])
                   ELSE attrs,
                   data, keys, i + 1)

\* The loop over mapkeys that sets the attribute named like the field
\* instead of the mapped one.
RECURSIVE copy_mapkeys_own_name(_, _, _, _)
copy_mapkeys_own_name(attrs, data, mapkeys, i) ==
    IF i > Len(mapkeys) THEN attrs
    ELSE copy_mapkeys_own_name(IF mapkeys[i][1] \in DOMAIN data
                               THEN setattr(attrs, mapkeys[i][1], data[mapkeys[i][1]])
                               ELSE attrs,
                               data, mapkeys, i + 1)

\* for key, val in mapkeys.items(): if key in data: setattr(obj, val, data[key])
RECURSIVE copy_mapkeys(_, _, _, _)
copy_mapkeys(attrs, data, mapkeys, i) ==
    IF i > Len(mapkeys) THEN attrs
    ELSE copy_mapkeys(IF mapkeys[i][1] \in DOMAIN data
                      THEN setattr(attrs, mapkeys[i][2], data[mapkeys[i][1]])
                      ELSE attrs,
                      data, mapkeys, i + 1)

\* _copy_if_present(obj, data, keys, mapkeys): the attributes of obj after it.
copy_if_present(attrs, data, keys, mapkeys) ==
    copy_mapkeys(copy_keys(attrs, data, keys, 1), data, mapkeys, 1)

\* The keys and mapkeys each caller passes.
StructTable == [keys |-> <<"title">>, mapkeys |-> << <<"entry_id", "id">> >>]
SoftwareTable ==
    [keys |-> <<"name", "classification", "description", "version", "type",
                "location">>,
     mapkeys |-> << >>]
TestTable == [keys |-> <<"test", "foo">>,
              mapkeys |-> << <<"bar", "baro">>, <<"x", "y">> >>]

\* The caller's table for an object of class cls.
TableOf(cls) ==
    IF cls = "System" THEN StructTable
    ELSE IF cls = "Software" THEN SoftwareTable
    ELSE TestTable

(***************************************************************************)
(* Records.  A Record maps some of the fields to values; a field may be    *)
(* absent.                                                                 *)
(***************************************************************************)
Records(fields, values) ==
    UNION {[present -> values] : present \in SUBSET fields}

CopyValues == {"a", "b"}

\* Fields of the Records given to each table; "t" and "citation_id" are in
\* no table, and no Record holds "test" or "x", as in the handlers' test.
CopyFields(cls) ==
    IF cls = "System" THEN {"title", "entry_id"}
    ELSE IF cls = "Software" THEN {"name", "citation_id"}
    ELSE {"foo", "bar", "t"}

(***************************************************************************)
(* _copy_if_present called directly on an object, as the handlers' test    *)
(* does: on the System of session 1, on a Software the mapper made, on a   *)
(* MockObject with no attribute.                                           *)
(***************************************************************************)
SoftwareObj == NumSessions + 1
MockObj == NumSessions + 2
CopyObjs == {SystemReader_system(1), SoftwareObj, MockObj}

CopyInit ==
    /\ LET st0 == [heap |-> [s \in Sessions |->
                               [cls |-> "System", attrs |-> System_init]],
                   dicts |-> [m \in Sessions |-> EmptyDict],
                   lists |-> [l \in Sessions |-> << >>]]
           r == make_new(st0, 1, "Software", "1", <<None, None, None, None>>)
       IN  /\ heap = Append(r.st.heap, [cls |-> "MockObject", attrs |-> EmptyDict])
           /\ dicts = r.st.dicts
           /\ lists = r.st.lists
    /\ pc = [s \in Sessions |-> "reading"]
    /\ sys = << >> /\ obj = << >>
    /\ call = NoCall

\* h._copy_if_present(o, d, keys, mapkeys)
CopyIfPresent(o, d) ==
    /\ heap' = [heap EXCEPT ![o].attrs =
                   copy_if_present(@, d, TableOf(heap[o].cls).keys,
                                   TableOf(heap[o].cls).mapkeys)]
    /\ call' = [op |-> "_copy_if_present", obj |-> o, data |-> d]
    /\ UNCHANGED <<dicts, lists, pc, sys, obj>>

CopyNext ==
    \E o \in CopyObjs :
        \E d \in Records(CopyFields(heap[o].cls), CopyValues) : CopyIfPresent(o, d)

SpecCopy == CopyInit /\ [][CopyNext]_vars

\* Attribute a of object o is the same before and after the step: unset in
\* both, or set to the same value in both.
AttrUnchanged(o, a) ==
    /\ (a \in DOMAIN heap[o].attrs) <=> (a \in DOMAIN heap'[o].attrs)
    /\ a \in DOMAIN heap[o].attrs => heap'[o].attrs[a] = heap[o].attrs[a]

C4_Step ==
    call'.op = "_copy_if_present" =>
        LET o == call'.obj
            t == TableOf(heap[o].cls)
        IN  /\ \A i \in 1..Len(t.keys) :
                  t.keys[i] \notin DOMAIN call'.data => AttrUnchanged(o, t.keys[i])
            /\ \A j \in 1..Len(t.mapkeys) :
                  t.mapkeys[j][1] \notin DOMAIN call'.data
                      => AttrUnchanged(o, t.mapkeys[j][2])

\* C4: _copy_if_present leaves every attribute whose source field is absent
\* from data as it was: for each key of keys not in data and each mapkeys
\* entry whose key is not in data, the target attribute keeps its value or
\* stays unset.
C4_AbsentFieldKeepsValue == [][C4_Step]_vars

\* A Record without "foo" and "bar" left the values an earlier Record set.
C4_Witness ==
    /\ call.op = "_copy_if_present"
    /\ call.obj = MockObj
    /\ DOMAIN call.data = {"t"}
    /\ "foo" \in DOMAIN heap[MockObj].attrs
    /\ "baro" \in DOMAIN heap[MockObj].attrs

\* The attributes a table can set, and the fields it reads.
TableTargets(t) ==
    {t.keys[i] : i \in 1..Len(t.keys)} \cup {t.mapkeys[j][2] : j \in 1..Len(t.mapkeys)}

C5_Step ==
    call'.op = "_copy_if_present" =>
        LET o == call'.obj
            t == TableOf(heap[o].cls)
            d == call'.data
        IN  /\ \A a \in (DOMAIN heap[o].attrs) \cup (DOMAIN heap'[o].attrs) :
                  \/ AttrUnchanged(o, a)
                  \/ /\ a \in TableTargets(t)
                     /\ \/ a \in DOMAIN d /\ heap'[o].attrs[a] = d[a]
                              /\ \E i \in 1..Len(t.keys) : t.keys[i] = a
                        \/ \E j \in 1..Len(t.mapkeys) :
                              /\ t.mapkeys[j][2] = a
                              /\ t.mapkeys[j][1] \in DOMAIN d
                              /\ heap'[o].attrs[a] = d[t.mapkeys[j][1]]
            /\ \A f \in DOMAIN d : f \notin TableTargets(t) => AttrUnchanged(o, f)
            /\ \A j \in 1..Len(t.mapkeys) : AttrUnchanged(o, t.mapkeys[j][1])
            /\ \A p \in 1..Len(heap) : p # o => heap'[p] = heap[p]

\* C5: _copy_if_present sets only attributes named in keys or named as a
\* value of mapkeys, each from its own source field; a field of data in
\* neither list sets nothing, and a field that is a mapkeys key sets the
\* mapped attribute and never the attribute of the field's own name.
C5_UnknownFieldsIgnored == [][C5_Step]_vars

\* A Record with the unlisted field "t" and the mapped field "bar" was copied:
\* neither name became an attribute, "baro" did.
C5_Witness ==
    /\ call.op = "_copy_if_present"
    /\ call.obj = MockObj
    /\ {"t", "bar"} \subseteq DOMAIN call.data
    /\ "t" \notin DOMAIN heap[MockObj].attrs
    /\ "bar" \notin DOMAIN heap[MockObj].attrs
    /\ heap[MockObj].attrs["baro"] = call.data["bar"]

(***************************************************************************)
(* The handlers and read().  CifReader.read_file() gives each Record of    *)
(* the input to the handler of its category, in input order; the model     *)
(* follows the read() of one session.                                      *)
(***************************************************************************)
\* _SystemReader.__init__: self.software = _IDMapper(self.system.software)
SystemReader_software(s) == s

\* _StructHandler.__call__ with entry_id listed in keys, not in mapkeys: the
\* field is stored under its own name.
struct_handler_unmapped(st, s, d) ==
    [st EXCEPT !.heap[SystemReader_system(s)].attrs =
        copy_if_present(@, d, <<"title", "entry_id">>, << >>)]

\* _StructHandler.__call__(d)
struct_handler(st, s, d) ==
    [st EXCEPT !.heap[SystemReader_system(s)].attrs =
        copy_if_present(@, d, StructTable.keys, StructTable.mapkeys)]

\* _SoftwareHandler.__call__(d), for a Record that has pdbx_ordinal.
software_handler(st, s, d) ==
    LET r == make_new(st, SystemReader_software(s), "Software",
                      d["pdbx_ordinal"], <<None, None, None, None>>)
    IN  [r.st EXCEPT !.heap[r.ret].attrs =
            copy_if_present(@, d, SoftwareTable.keys, SoftwareTable.mapkeys)]

\* The values a field of the input takes; "" is the empty string.
FieldValues(f) ==
    IF f = "pdbx_ordinal" THEN Ids
    ELSE IF f = "name" THEN {"a", "b", ""}
    ELSE {"a"}

AllFieldValues == Ids \cup {"a", "b", ""}

RecordsOf(fields) ==
    UNION {{d \in [present -> AllFieldValues] :
               \A f \in present : d[f] \in FieldValues(f)} :
           present \in SUBSET fields}

StructRecords == RecordsOf({"entry_id", "title"})
SoftwareRecords == RecordsOf({"pdbx_ordinal", "name", "type"})

\* The session whose read() is followed.
ReadSession == 1

\* The handler of category _struct is called with Record d.
StructHandler(s, d) ==
    /\ pc[s] = "reading"
    /\ LET st == struct_handler(St, s, d)
       IN  heap' = st.heap /\ dicts' = st.dicts /\ lists' = st.lists
    /\ call' = [op |-> "_struct", s |-> s, data |-> d, raised |-> "none"]
    /\ UNCHANGED <<pc, sys, obj>>

\* The handler of category _software is called with Record d.
SoftwareHandler(s, d) ==
    /\ pc[s] = "reading"
    /\ "pdbx_ordinal" \in DOMAIN d
    /\ LET st == software_handler(St, s, d)
       IN  heap' = st.heap /\ dicts' = st.dicts /\ lists' = st.lists
    /\ call' = [op |-> "_software", s |-> s, data |-> d, raised |-> "none"]
    /\ UNCHANGED <<pc, sys, obj>>

\* d['pdbx_ordinal'] raises KeyError, which ends read().
SoftwareHandlerKeyError(s, d) ==
    /\ pc[s] = "reading"
    /\ "pdbx_ordinal" \notin DOMAIN d
    /\ pc' = [pc EXCEPT ![s] = "failed"]
    /\ call' = [op |-> "_software", s |-> s, data |-> d, raised |-> "KeyError"]
    /\ UNCHANGED <<heap, dicts, lists, sys, obj>>

\* read_file() is over: systems.append(s.system); return systems
ReadReturn(s) ==
    /\ pc[s] = "reading"
    /\ pc' = [pc EXCEPT ![s] = "done"]
    /\ call' = [op |-> "read", s |-> s, ret |-> <<SystemReader_system(s)>>]
    /\ UNCHANGED <<heap, dicts, lists, sys, obj>>

ReaderNext ==
    \/ \E d \in StructRecords : StructHandler(ReadSession, d)
    \/ \E d \in SoftwareRecords : SoftwareHandler(ReadSession, d)
    \/ \E d \in SoftwareRecords : SoftwareHandlerKeyError(ReadSession, d)
    \/ ReadReturn(ReadSession)

SpecReader == ReaderInit /\ [][ReaderNext]_vars

\* C6: a handler given the same Record twice leaves the state it reached
\* after the first delivery: from every reachable state and for every
\* Record, applying _SoftwareHandler (or _StructHandler) to its own outcome
\* changes nothing, so system.software gains one entry and not two.
C6_HandlersIdempotent ==
    /\ \A d \in StructRecords :
          LET once == struct_handler(St, ReadSession, d)
          IN  struct_handler(once, ReadSession, d) = once
    /\ \A d \in SoftwareRecords :
          "pdbx_ordinal" \in DOMAIN d =>
              LET once == software_handler(St, ReadSession, d)
                  O == once.lists[System_software(SystemReader_system(ReadSession))]
              IN  /\ software_handler(once, ReadSession, d) = once
                  /\ Cardinality({i \in 1..Len(O) :
                        once.heap[O[i]].attrs["_id"] = d["pdbx_ordinal"]}) = 1

\* A _software Record with a name has been delivered; delivering it again
\* leaves the one Software and the whole state as they are.
C6_Witness ==
    /\ call.op = "_software"
    /\ call.raised = "none"
    /\ "name" \in DOMAIN call.data
    /\ Len(lists[System_software(SystemReader_system(ReadSession))]) = 1
    /\ software_handler(St, ReadSession, call.data) = St

\* A value that is neither None nor the empty string.
NonEmpty(v) == v # None /\ v # ""

C7_Step ==
    call'.op = "_software" =>
        /\ call'.raised = "none" \/ "pdbx_ordinal" \notin DOMAIN call'.data
        /\ call'.raised = "none" =>
              LET d == call'.data
                  m == SystemReader_software(call'.s)
              IN  d["pdbx_ordinal"] \in DOMAIN Cache(m) =>
                      LET o == Cache(m)[d["pdbx_ordinal"]]
                      IN  \A i \in 1..Len(SoftwareTable.keys) :
                              LET k == SoftwareTable.keys[i]
                              IN  IF k \in DOMAIN d /\ NonEmpty(d[k])
                                  THEN heap'[o].attrs[k] = d[k]
                                  ELSE NonEmpty(heap[o].attrs[k])
                                          => heap'[o].attrs[k] = heap[o].attrs[k]

\* C7: when a later Record has the row identifier of an earlier one, no error
\* is raised and each field of the object ends as the last non-empty value
\* supplied for it: a non-empty value of the Record is stored, and a field
\* the Record leaves out or supplies empty keeps its non-empty value.
C7_LaterNonEmptyWins == [][C7_Step]_vars

(***************************************************************************)
(* The object graph under one ihm.System and its traversals.               *)
(*                                                                         *)
(* An object of the graph is a positive number, its identity within its    *)
(* class; NoneRef is Python's None.  Objects may compare equal without     *)
(* being identical: equality and hash go by ObjKey.                        *)
(***************************************************************************)
NumObjs == 3           \* Model objects
NumGroups == 2         \* ModelGroup objects
NumProtocols == 2      \* objects of each other class (Protocol, Citation, ...)
MaxGroupLen == 3       \* models appended to one ModelGroup
MaxStateGroups == 1    \* state groups appended to System.state_groups
MaxStates == 2         \* states appended to one state group
MaxGroupsPerState == 2 \* model groups appended to one state
MaxOrphans == 2        \* objects appended to one orphan list
NumEntities == 3       \* Entity objects
NumAsyms == 2          \* AsymUnit objects
NumAssemblies == 2     \* Assembly objects, System.complete_assembly included
NumDatasets == 3       \* Dataset objects
MaxListLen == 2        \* objects appended to System.entities, asym_units, ...
MaxParents == 2        \* datasets appended to one Dataset.parents
MaxRanges == 2         \* EntityRange and AsymUnitRange objects constructed

NoneRef == 0
\* The value of an attribute the object does not have (hasattr is False).
NoAttr == -1

Models == 1..NumObjs
Groups == 1..NumGroups
Others == 1..NumProtocols
Entities == 1..NumEntities
Asyms == 1..NumAsyms
Assemblies == 1..NumAssemblies
Datasets == 1..NumDatasets

\* obj.__eq__ / obj.__hash__ of a class of n objects: the last object is a
\* distinct object that compares (and hashes) equal to the first.
ObjKey(o, n) == IF o = n THEN 1 ELSE o
ModelEq(a, b) == ObjKey(a, NumObjs) = ObjKey(b, NumObjs)
ModelHash(a) == ObjKey(a, NumObjs)
OtherEq(a, b) == ObjKey(a, NumProtocols) = ObjKey(b, NumProtocols)

\* `x in seen` for a dict: a key with the same hash that is x or equals x.
InDict(x, seen) ==
    \E k \in seen : ModelHash(k) = ModelHash(x) /\ (k = x \/ ModelEq(k, x))

\* bool(x) of None or of a plain object.
Truthy(x) == x # NoneRef

\* The concatenation of the sequences in ss; itertools.chain, nested for loops.
RECURSIVE Flatten(_)
Flatten(ss) == IF ss = << >> THEN << >> ELSE Head(ss) \o Flatten(Tail(ss))

\* System.__init__: every list starts empty.
System_lists ==
    [state_groups |-> << >>, orphan_protocols |-> << >>,
     orphan_representations |-> << >>, orphan_starting_models |-> << >>,
     citations |-> << >>, restraints |-> << >>,
     entities |-> << >>, asym_units |-> << >>, orphan_assemblies |-> << >>,
     complete_assembly |-> 1, locations |-> << >>, orphan_datasets |-> << >>,
     orphan_dataset_groups |-> << >>, ensembles |-> << >>]

\* Entity(seq): the sequence of the entity with key k has k residues, so
\* that entities are equal by sequence exactly when their keys are.
SeqOf(k) == [i \in 1..k |-> "A"]

\* AsymUnit(entity): the entity each asym unit is constructed with, as in
\* the example a1(e1), a2(e2).
AsymEntity(a) == IF a <= NumEntities THEN a ELSE 1

\* The objects a test creates before it fills the System: empty model
\* groups, models without protocol or representation, representations of
\* one segment, segments without starting model, restraints without the
\* fitting_method_citation_id attribute; and likewise for the other classes:
\* the complete assembly and the other assemblies empty, protocols without
\* steps, datasets without parents and without a location attribute.
Objects_init ==
    [model_group |-> [g \in Groups |-> << >>],
     model |-> [m \in Models |-> [protocol |-> NoneRef, representation |-> NoneRef,
                                  assembly |-> NoneRef]],
     representation |-> [r \in Others |-> <<r>>],
     segment |-> [x \in Others |-> [starting_model |-> NoneRef]],
     restraint |-> [x \in Others |-> [fitting_method_citation_id |-> NoAttr,
                                      assembly |-> NoneRef, dataset |-> NoneRef]],
     entity |-> [e \in Entities |->
                    [sequence |-> SeqOf(ObjKey(e, NumEntities)), _id |-> NoAttr]],
     asym |-> [a \in Asyms |-> [entity |-> AsymEntity(a), _id |-> NoAttr]],
     assembly |-> [x \in Assemblies |-> << >>],
     range |-> << >>,
     protocol |-> [x \in Others |-> [steps |-> << >>, analyses |-> << >>]],
     analysis |-> [x \in Others |-> [steps |-> << >>]],
     step |-> [x \in Others |-> [assembly |-> NoneRef, dataset_group |-> NoneRef]],
     astep |-> [x \in Others |-> [assembly |-> NoneRef, dataset_group |-> NoneRef]],
     dataset_group |-> [x \in Others |-> << >>],
     starting_model |-> [x \in Others |-> [dataset |-> NoneRef, templates |-> << >>]],
     template |-> [x \in Others |-> [dataset |-> NoneRef, alignment_file |-> NoneRef]],
     dataset |-> [d \in Datasets |-> [parents |-> << >>, location |-> NoAttr]],
     ensemble |-> [x \in Others |-> [file |-> NoneRef, densities |-> << >>]],
     density |-> [x \in Others |-> [file |-> NoneRef]]]

\* System._all_model_groups
AllModelGroups == Flatten(Flatten(sys.state_groups))

\* The inner loop of _all_models over one group, which keeps every object
\* (no seen_models test).
RECURSIVE group_models_all(_, _, _)
group_models_all(items, i, seen) ==
    IF i > Len(items) THEN << >>
    ELSE <<items[i]>> \o group_models_all(items, i + 1, seen)

\* The inner loop of _all_models over one group: seen_models = {}; for model
\* in group: if model in seen_models: continue; seen_models[model] = None;
\* yield
RECURSIVE group_models(_, _, _)
group_models(items, i, seen) ==
    IF i > Len(items) THEN << >>
    ELSE IF InDict(items[i], seen) THEN group_models(items, i + 1, seen)
    ELSE <<items[i]>> \o group_models(items, i + 1, seen \cup {items[i]})

\* System._all_models: the (group, model) pairs yielded.
AllModels ==
    LET G == AllModelGroups
    IN  Flatten([i \in 1..Len(G) |->
                    LET U == group_models(obj.model_group[G[i]], 1, {})
                    IN  [j \in 1..Len(U) |-> <<G[i], U[j]>>]])

\* _remove_identical that tests `obj in seen`, for objects that are equal
\* when their keys are.
RECURSIVE remove_equal(_, _, _)
remove_equal(gen, i, seen_objs) ==
    IF i > Len(gen) THEN << >>
    ELSE IF \E k \in seen_objs : OtherEq(k, gen[i])
         THEN remove_equal(gen, i + 1, seen_objs)
    ELSE <<gen[i]>> \o remove_equal(gen, i + 1, seen_objs \cup {gen[i]})

\* _remove_identical(gen): seen_objs holds id(obj).
RECURSIVE remove_identical(_, _, _)
remove_identical(gen, i, seen_objs) ==
    IF i > Len(gen) THEN << >>
    ELSE IF gen[i] \in seen_objs THEN remove_identical(gen, i + 1, seen_objs)
    ELSE <<gen[i]>> \o remove_identical(gen, i + 1, seen_objs \cup {gen[i]})

\* (model.protocol for group, model in self._all_models() if model.protocol)
\* with a filter that lets every model.protocol through.
ModelProtocols_unfiltered ==
    LET M == AllModels
    IN  [i \in 1..Len(M) |-> obj.model[M[i][2]].protocol]

\* (model.protocol for group, model in self._all_models() if model.protocol)
ModelProtocols ==
    LET M == AllModels
    IN  SelectSeq([i \in 1..Len(M) |-> obj.model[M[i][2]].protocol], Truthy)

\* System._all_protocols
AllProtocols == remove_identical(sys.orphan_protocols \o ModelProtocols, 1, {})

\* (model.representation for group, model in self._all_models()
\*  if model.representation)
ModelRepresentations ==
    LET M == AllModels
    IN  SelectSeq([i \in 1..Len(M) |-> obj.model[M[i][2]].representation], Truthy)

\* System._all_representations
AllRepresentations ==
    remove_identical(sys.orphan_representations \o ModelRepresentations, 1, {})

\* System._all_segments
AllSegments ==
    LET R == AllRepresentations
    IN  Flatten([i \in 1..Len(R) |-> obj.representation[R[i]]])

\* (segment.starting_model for segment in self._all_segments()
\*  if segment.starting_model)
SegmentStartingModels ==
    LET S == AllSegments
    IN  SelectSeq([i \in 1..Len(S) |-> obj.segment[S[i]].starting_model], Truthy)

\* System._all_starting_models
AllStartingModels ==
    remove_identical(sys.orphan_starting_models \o SegmentStartingModels, 1, {})

\* hasattr(restraint, 'fitting_method_citation_id')
\* and restraint.fitting_method_citation_id
HasCitation(c) == c # NoAttr /\ Truthy(c)

\* (restraint.fitting_method_citation_id for restraint in self.restraints if ...)
RestraintCitations ==
    SelectSeq([i \in 1..Len(sys.restraints) |->
                  obj.restraint[sys.restraints[i]].fitting_method_citation_id],
              HasCitation)

\* System._all_citations
AllCitations == remove_identical(sys.citations \o RestraintCitations, 1, {})

(***************************************************************************)
(* Filling the graph, as the tests do, and then walking it.  The graph is  *)
(* filled while no traversal has been called.                              *)
(***************************************************************************)
Filling == call.op = "none"

ReaderIdle == heap = << >> /\ dicts = << >> /\ lists = << >> /\ pc = << >>

\* s = ihm.System(), with the objects created.
GraphInit ==
    /\ ReaderIdle
    /\ sys = System_lists
    /\ obj = Objects_init
    /\ call = NoCall

\* s.state_groups.append([])
StateGroupsAppend ==
    /\ Filling
    /\ Len(sys.state_groups) < MaxStateGroups
    /\ sys' = [sys EXCEPT !.state_groups = Append(@, << >>)]
    /\ UNCHANGED <<rvars, obj, call>>

\* state_group.append([]): a new state in state group i
StateGroupAppend(i) ==
    /\ Filling
    /\ Len(sys.state_groups[i]) < MaxStates
    /\ sys' = [sys EXCEPT !.state_groups[i] = Append(@, << >>)]
    /\ UNCHANGED <<rvars, obj, call>>

\* state.append(model_group): model group g in state j of state group i
StateAppend(i, j, g) ==
    /\ Filling
    /\ Len(sys.state_groups[i][j]) < MaxGroupsPerState
    /\ sys' = [sys EXCEPT !.state_groups[i][j] = Append(@, g)]
    /\ UNCHANGED <<rvars, obj, call>>

\* model_group.append(model)
ModelGroupAppend(g, m) ==
    /\ Filling
    /\ Len(obj.model_group[g]) < MaxGroupLen
    /\ obj' = [obj EXCEPT !.model_group[g] = Append(@, m)]
    /\ UNCHANGED <<rvars, sys, call>>

\* list(s._all_model_groups())
CallAllModelGroups ==
    /\ call' = [op |-> "_all_model_groups", ret |-> AllModelGroups]
    /\ UNCHANGED <<rvars, gvars>>

\* list(s._all_models())
CallAllModels ==
    /\ call' = [op |-> "_all_models", ret |-> AllModels]
    /\ UNCHANGED <<rvars, gvars>>

ModelsNext ==
    \/ StateGroupsAppend
    \/ \E i \in 1..Len(sys.state_groups) : StateGroupAppend(i)
    \/ \E i \in 1..Len(sys.state_groups) :
          \E j \in 1..Len(sys.state_groups[i]) :
              \E g \in Groups : StateAppend(i, j, g)
    \/ \E g \in Groups : \E m \in Models : ModelGroupAppend(g, m)
    \/ CallAllModelGroups
    \/ CallAllModels

SpecModels == GraphInit /\ [][ModelsNext]_vars

(***************************************************************************)
(* Claims about the traversals of models.                                  *)
(***************************************************************************)
\* The elements of s at the positions in P, in order.
RECURSIVE Pick(_, _, _)
Pick(s, P, i) ==
    IF i > Len(s) THEN << >>
    ELSE (IF i \in P THEN <<s[i]>> ELSE << >>) \o Pick(s, P, i + 1)

\* s without the later occurrences of an object that occurred already.
FirstOccurrences(s) ==
    Pick(s, {j \in 1..Len(s) : \A k \in 1..(j - 1) : s[k] # s[j]}, 1)

\* Every object of s occurs in t.
AllYielded(s, t) == \A j \in 1..Len(s) : \E k \in 1..Len(t) : t[k] = s[j]

\* No object occurs twice in t.
NoRepeat(t) == \A j, k \in 1..Len(t) : j # k => t[j] # t[k]

\* C8: _all_models yields, for each model group visited and in the order of
\* the visits, each model of the group once, in the order of the models'
\* first occurrences in the group; what an earlier group yielded is yielded
\* again for a later group.
C8_PerGroupDedup ==
    call.op = "_all_models" =>
        LET G == AllModelGroups
        IN  call.ret =
                Flatten([i \in 1..Len(G) |->
                            LET F == FirstOccurrences(obj.model_group[G[i]])
                            IN  [j \in 1..Len(F) |-> <<G[i], F[j]>>]])

\* C9: the walks drop an object only when the very same object was walked
\* before: of the objects walked for one model group, for the protocols, the
\* representations, the starting models and the citations, every object is
\* yielded, also one that equals an earlier one, and none is yielded twice.
C9_DedupByIdentity ==
    /\ \A i \in 1..Len(AllModelGroups) :
          LET items == obj.model_group[AllModelGroups[i]]
              Y == group_models(items, 1, {})
          IN  AllYielded(items, Y) /\ NoRepeat(Y)
    /\ AllYielded(sys.orphan_protocols \o ModelProtocols, AllProtocols)
    /\ NoRepeat(AllProtocols)
    /\ AllYielded(sys.orphan_representations \o ModelRepresentations,
                  AllRepresentations)
    /\ NoRepeat(AllRepresentations)
    /\ AllYielded(sys.orphan_starting_models \o SegmentStartingModels,
                  AllStartingModels)
    /\ NoRepeat(AllStartingModels)
    /\ AllYielded(sys.citations \o RestraintCitations, AllCitations)
    /\ NoRepeat(AllCitations)

(***************************************************************************)
(* Protocols: a System with one state of two model groups, the first       *)
(* holding models 1 and 2; the test appends orphans, gives the second      *)
(* group a model and assigns model.protocol.                               *)
(***************************************************************************)
ProtocolsInit ==
    /\ ReaderIdle
    /\ sys = [System_lists EXCEPT !.state_groups = << << <<1, 2>> >> >>]
    /\ obj = [Objects_init EXCEPT !.model_group[1] = <<1, 2>>]
    /\ call = NoCall

\* s.orphan_protocols.append(p)
OrphanProtocolsAppend(p) ==
    /\ Filling
    /\ Len(sys.orphan_protocols) < MaxOrphans
    /\ sys' = [sys EXCEPT !.orphan_protocols = Append(@, p)]
    /\ UNCHANGED <<rvars, obj, call>>

\* model.protocol = p, where p may be None
SetProtocol(m, p) ==
    /\ Filling
    /\ obj' = [obj EXCEPT !.model[m].protocol = p]
    /\ UNCHANGED <<rvars, sys, call>>

\* list(s._all_protocols())
CallAllProtocols ==
    /\ call' = [op |-> "_all_protocols", ret |-> AllProtocols]
    /\ UNCHANGED <<rvars, gvars>>

ProtocolsNext ==
    \/ \E m \in Models : obj.model_group[2] = << >> /\ ModelGroupAppend(2, m)
    \/ \E p \in Others : OrphanProtocolsAppend(p)
    \/ \E m \in Models : \E p \in Others \cup {NoneRef} : SetProtocol(m, p)
    \/ CallAllProtocols

SpecProtocols == ProtocolsInit /\ [][ProtocolsNext]_vars

\* C10: _all_protocols yields the orphan protocols followed by the protocols
\* of the models _all_models enumerates, globally deduplicated in first-seen
\* order: no protocol twice, nothing for a model whose protocol is None.
C10_ProtocolsDedup ==
    call.op = "_all_protocols" =>
        LET M == AllModels
            P == [i \in 1..Len(M) |-> obj.model[M[i][2]].protocol]
            W == sys.orphan_protocols
                    \o Pick(P, {i \in 1..Len(P) : P[i] # NoneRef}, 1)
        IN  /\ call.ret = FirstOccurrences(W)
            /\ NoRepeat(call.ret)
            /\ \A k \in 1..Len(call.ret) : call.ret[k] # NoneRef
            /\ {call.ret[k] : k \in 1..Len(call.ret)} =
                   {sys.orphan_protocols[k] : k \in 1..Len(sys.orphan_protocols)}
                   \cup ({obj.model[M[i][2]].protocol : i \in 1..Len(M)} \ {NoneRef})

\* Orphans [p1] and models with protocols [None, p2, p1] gave [p1, p2].
C10_Witness ==
    /\ call.op = "_all_protocols"
    /\ sys.orphan_protocols = <<1>>
    /\ [i \in 1..Len(AllModels) |-> obj.model[AllModels[i][2]].protocol]
           = <<NoneRef, 2, 1>>
    /\ call.ret = <<1, 2>>

(***************************************************************************)
(* The complete assembly.  A component of an Assembly is a pair of its     *)
(* class and the object: <<"asym", a>> or <<"entity", e>>.                 *)
(***************************************************************************)
\* The number of values hash() maps the strings to (many strings, few hashes).
HashMod == 2

\* hash(str)
StrHash(str) == Len(str) % HashMod

\* Entity.__eq__: self.sequence == other.sequence
EntityEq(o, a, b) == o.entity[a].sequence = o.entity[b].sequence

\* Entity.__hash__: hash(self.sequence)
EntityHash(o, e) == StrHash(o.entity[e].sequence)

\* `entity in seen_entities` for the dict seen_entities
EntityInDict(o, e, seen) ==
    \E k \in seen : EntityHash(o, k) = EntityHash(o, e) /\ (k = e \/ EntityEq(o, k, e))

\* self.complete_assembly[:] = [] that keeps the contents.
assembly_not_cleared(items) == items

\* self.complete_assembly[:] = []: the contents of the list afterwards.
assembly_cleared(items) == << >>

\* The second loop of _make_complete_assembly without its test: every
\* entity of self.entities.
entities_unfiltered(s, o) == s.entities

\* The second loop of _make_complete_assembly: the entities appended, given
\* seen_entities as the first loop leaves it.
entities_without_structure(s, o) ==
    LET seen_entities == {o.asym[s.asym_units[i]].entity : i \in 1..Len(s.asym_units)}
        NotSeen(e) == ~EntityInDict(o, e, seen_entities)
    IN  SelectSeq(s.entities, NotSeen)

\* System._make_complete_assembly: the objects afterwards.  The list bound to
\* self.complete_assembly is changed in place; the attribute is not rebound.
make_complete_assembly(s, o) ==
    LET E == entities_without_structure(s, o)
    IN  [o EXCEPT !.assembly[s.complete_assembly] =
            assembly_cleared(@)
                \o [i \in 1..Len(s.asym_units) |-> <<"asym", s.asym_units[i]>>]
                \o [i \in 1..Len(E) |-> <<"entity", E[i]>>]]

\* s.entities.append(e)
EntitiesAppend(e) ==
    /\ Filling
    /\ Len(sys.entities) < MaxListLen
    /\ sys' = [sys EXCEPT !.entities = Append(@, e)]
    /\ UNCHANGED <<rvars, obj, call>>

\* s.asym_units.append(a)
AsymUnitsAppend(a) ==
    /\ Filling
    /\ Len(sys.asym_units) < MaxListLen
    /\ sys' = [sys EXCEPT !.asym_units = Append(@, a)]
    /\ UNCHANGED <<rvars, obj, call>>

\* s.complete_assembly.append(c): contents present before the derivation
CompleteAssemblyAppend(c) ==
    /\ Filling
    /\ obj.assembly[sys.complete_assembly] = << >>
    /\ obj' = [obj EXCEPT !.assembly[sys.complete_assembly] = Append(@, c)]
    /\ UNCHANGED <<rvars, sys, call>>

\* s._make_complete_assembly()
MakeCompleteAssembly ==
    /\ obj' = make_complete_assembly(sys, obj)
    /\ call' = [op |-> "_make_complete_assembly"]
    /\ UNCHANGED <<rvars, sys>>

Components ==
    {<<"asym", a>> : a \in Asyms} \cup {<<"entity", e>> : e \in Entities}

CompleteNext ==
    \/ \E e \in Entities : EntitiesAppend(e)
    \/ \E a \in Asyms : AsymUnitsAppend(a)
    \/ \E c \in Components : CompleteAssemblyAppend(c)
    \/ MakeCompleteAssembly

SpecComplete == GraphInit /\ [][CompleteNext]_vars

\* C11: after _make_complete_assembly the complete assembly is exactly the
\* asym units in list order followed by, in the order of system.entities,
\* every entity that is not the entity of an asym unit of system.asym_units;
\* an entity is the entity of an asym unit when it equals it as entities do
\* (Entity.__eq__, same sequence).
C11_CompleteAssembly ==
    call.op = "_make_complete_assembly" =>
        LET A == sys.asym_units
            E == sys.entities
            HasInstance(e) ==
                \E i \in 1..Len(A) :
                    obj.entity[obj.asym[A[i]].entity].sequence = obj.entity[e].sequence
            L == Pick(E, {j \in 1..Len(E) : ~HasInstance(E[j])}, 1)
        IN  obj.assembly[sys.complete_assembly] =
                [i \in 1..Len(A) |-> <<"asym", A[i]>>]
                    \o [i \in 1..Len(L) |-> <<"entity", L[i]>>]

\* Asym units [a1(e1)] and entities [e3, e2], where e3 is another Entity
\* object with the sequence of e1, gave [a1, e2].
C11_Witness ==
    /\ call.op = "_make_complete_assembly"
    /\ sys.asym_units = <<1>>
    /\ obj.asym[1].entity = 1
    /\ sys.entities = <<NumEntities, 2>>
    /\ obj.assembly[sys.complete_assembly] = <<<<"asym", 1>>, <<"entity", 2>>>>

\* C12: a second _make_complete_assembly right after the first leaves the
\* complete assembly with the same ordered contents.
C12_Fixpoint ==
    call.op = "_make_complete_assembly" =>
        make_complete_assembly(sys, obj).assembly[sys.complete_assembly]
            = obj.assembly[sys.complete_assembly]

\* C12: _make_complete_assembly keeps the complete_assembly object and all
\* other assemblies as they are.
C12_Step ==
    call'.op = "_make_complete_assembly" =>
        /\ sys'.complete_assembly = sys.complete_assembly
        /\ \A x \in Assemblies \ {sys.complete_assembly} :
              obj'.assembly[x] = obj.assembly[x]

\* C12: _make_complete_assembly is idempotent and keeps the instance.
C12_Idempotent == [](C12_Fixpoint) /\ [][C12_Step]_vars

\* The derivation ran on asym units [a2] and entities [e1, e2] and left
\* [a2, e1].
C12_Witness ==
    /\ call.op = "_make_complete_assembly"
    /\ sys.asym_units = <<2>>
    /\ sys.entities = <<1, 2>>
    /\ obj.assembly[sys.complete_assembly] = <<<<"asym", 2>>, <<"entity", 1>>>>

(***************************************************************************)
(* Assemblies.                                                             *)
(***************************************************************************)
\* [F(x) for x in seq]
MapSeq(seq, F(_)) == [i \in 1..Len(seq) |-> F(seq[i])]

\* bool(x) that is false for None alone: an empty Assembly counts as true.
AssemblyTruthy_not_none(x) == x # NoneRef

\* bool(x) of None or of an Assembly, which is a list: empty is false.
AssemblyTruthy(x) == x # NoneRef /\ obj.assembly[x] # << >>

\* System._all_protocol_steps
AllProtocolSteps ==
    Flatten(MapSeq(AllProtocols, LAMBDA p : obj.protocol[p].steps))

\* System._all_analysis_steps
AllAnalysisSteps ==
    Flatten(MapSeq(Flatten(MapSeq(AllProtocols, LAMBDA p : obj.protocol[p].analyses)),
                   LAMBDA a : obj.analysis[a].steps))

\* The four generators of _all_assemblies, chained in their order.
ReferencedAssemblies ==
    SelectSeq(MapSeq(AllModels, LAMBDA gm : obj.model[gm[2]].assembly), AssemblyTruthy)
    \o SelectSeq(MapSeq(AllProtocolSteps, LAMBDA t : obj.step[t].assembly),
                 AssemblyTruthy)
    \o SelectSeq(MapSeq(AllAnalysisSteps, LAMBDA t : obj.astep[t].assembly),
                 AssemblyTruthy)
    \o SelectSeq(MapSeq(sys.restraints, LAMBDA r : obj.restraint[r].assembly),
                 AssemblyTruthy)

\* _all_assemblies with the orphan assemblies chained first.
AllAssemblies_orphans_first ==
    sys.orphan_assemblies \o <<sys.complete_assembly>> \o ReferencedAssemblies

\* System._all_assemblies
AllAssemblies ==
    <<sys.complete_assembly>> \o sys.orphan_assemblies \o ReferencedAssemblies

\* One state of two model groups, the first with models 1 and 2; model 1 has
\* protocol 1, which has step 1 and analysis 1, which has analysis step 1.
AssembliesInit ==
    /\ ReaderIdle
    /\ sys = [System_lists EXCEPT !.state_groups = << << <<1, 2>> >> >>]
    /\ obj = [Objects_init EXCEPT !.model_group[1] = <<1, 2>>,
                                  !.model[1].protocol = 1,
                                  !.protocol[1] = [steps |-> <<1>>, analyses |-> <<1>>],
                                  !.analysis[1] = [steps |-> <<1>>]]
    /\ call = NoCall

\* s.orphan_assemblies.append(x)
OrphanAssembliesAppend(x) ==
    /\ Filling
    /\ Len(sys.orphan_assemblies) < MaxListLen
    /\ sys' = [sys EXCEPT !.orphan_assemblies = Append(@, x)]
    /\ UNCHANGED <<rvars, obj, call>>

\* assembly.append(c) on an empty assembly
AssemblyAppend(x, c) ==
    /\ Filling
    /\ obj.assembly[x] = << >>
    /\ obj' = [obj EXCEPT !.assembly[x] = Append(@, c)]
    /\ UNCHANGED <<rvars, sys, call>>

\* model.assembly = x
SetModelAssembly(m, x) ==
    /\ Filling
    /\ obj' = [obj EXCEPT !.model[m].assembly = x]
    /\ UNCHANGED <<rvars, sys, call>>

\* step.assembly = x for a protocol step
SetStepAssembly(t, x) ==
    /\ Filling
    /\ obj' = [obj EXCEPT !.step[t].assembly = x]
    /\ UNCHANGED <<rvars, sys, call>>

\* step.assembly = x for an analysis step
SetAnalysisStepAssembly(t, x) ==
    /\ Filling
    /\ obj' = [obj EXCEPT !.astep[t].assembly = x]
    /\ UNCHANGED <<rvars, sys, call>>

\* s.restraints.append(r), once
RestraintsAppend(r) ==
    /\ Filling
    /\ sys.restraints = << >>
    /\ sys' = [sys EXCEPT !.restraints = Append(@, r)]
    /\ UNCHANGED <<rvars, obj, call>>

\* restraint.assembly = x
SetRestraintAssembly(r, x) ==
    /\ Filling
    /\ obj' = [obj EXCEPT !.restraint[r].assembly = x]
    /\ UNCHANGED <<rvars, sys, call>>

\* list(s._all_assemblies())
CallAllAssemblies ==
    /\ call' = [op |-> "_all_assemblies", ret |-> AllAssemblies]
    /\ UNCHANGED <<rvars, gvars>>

AssembliesNext ==
    \/ \E x \in Assemblies : OrphanAssembliesAppend(x)
    \/ \E x \in Assemblies : AssemblyAppend(x, <<"asym", 1>>)
    \/ \E x \in Assemblies \cup {NoneRef} : SetModelAssembly(1, x)
    \/ \E x \in Assemblies \cup {NoneRef} : SetStepAssembly(1, x)
    \/ \E x \in Assemblies \cup {NoneRef} : SetAnalysisStepAssembly(1, x)
    \/ RestraintsAppend(1)
    \/ \E x \in Assemblies \cup {NoneRef} : SetRestraintAssembly(1, x)
    \/ CallAllAssemblies

SpecAssemblies == AssembliesInit /\ [][AssembliesNext]_vars

\* C13: the first element _all_assemblies yields is system.complete_assembly,
\* whatever else the System holds.
C13_CompleteFirst ==
    call.op = "_all_assemblies" =>
        Len(call.ret) >= 1 /\ call.ret[1] = sys.complete_assembly

\* Orphans, a model, a protocol step, an analysis step and a restraint all
\* contributed another assembly, and the complete assembly came first.
C13_Witness ==
    /\ call.op = "_all_assemblies"
    /\ sys.orphan_assemblies = <<2>>
    /\ call.ret = <<sys.complete_assembly, 2, 2, 2, 2, 2>>

(***************************************************************************)
(* Datasets.  A traversal that may fail is a record of what it yielded and *)
(* whether it raised.                                                      *)
(***************************************************************************)
\* bool(x) of None or of a DatasetGroup, which is iterated as a list.
GroupTruthy(x) == x # NoneRef /\ obj.dataset_group[x] # << >>

\* System._all_dataset_groups
AllDatasetGroups ==
    sys.orphan_dataset_groups
    \o SelectSeq(MapSeq(AllProtocolSteps, LAMBDA t : obj.step[t].dataset_group),
                 GroupTruthy)
    \o SelectSeq(MapSeq(AllAnalysisSteps, LAMBDA t : obj.astep[t].dataset_group),
                 GroupTruthy)

\* System._all_templates
AllTemplates ==
    Flatten(MapSeq(AllStartingModels, LAMBDA m : obj.starting_model[m].templates))

\* _all_datasets_except_parents that chains only orphan_datasets and the
\* datasets of the groups.
AllDatasetsExceptParents_groups_only ==
    sys.orphan_datasets
    \o Flatten(MapSeq(AllDatasetGroups, LAMBDA g : obj.dataset_group[g]))

\* System._all_datasets_except_parents
AllDatasetsExceptParents ==
    sys.orphan_datasets
    \o Flatten(MapSeq(AllDatasetGroups, LAMBDA g : obj.dataset_group[g]))
    \o SelectSeq(MapSeq(AllStartingModels, LAMBDA m : obj.starting_model[m].dataset),
                 Truthy)
    \o SelectSeq(MapSeq(sys.restraints, LAMBDA r : obj.restraint[r].dataset), Truthy)
    \o SelectSeq(MapSeq(AllTemplates, LAMBDA t : obj.template[t].dataset), Truthy)

\* The depth of nested generator frames at which the interpreter gives up
\* (sys.getrecursionlimit(), scaled to the model).
RecursionLimit == NumDatasets + 1

\* _all_datasets_and_parents that yields d before its parents.
RECURSIVE datasets_self_first(_, _, _)
datasets_self_first(d, i, depth) ==
    IF depth > RecursionLimit THEN [out |-> << >>, err |-> TRUE]
    ELSE IF i > Len(obj.dataset[d].parents) THEN [out |-> << >>, err |-> FALSE]
    ELSE LET r == datasets_self_first(obj.dataset[d].parents[i], 1, depth + 1)
             self == IF i = 1 THEN <<d>> ELSE << >>
         IN  IF r.err THEN [out |-> self \o r.out, err |-> TRUE]
             ELSE LET rest == datasets_self_first(d, i + 1, depth)
                  IN  [out |-> self \o r.out \o rest.out, err |-> rest.err]

\* _all_datasets_and_parents(d), from the i-th parent of d on, in a frame at
\* the given depth: for p in d.parents: yield everything of p; then yield d.
\* There is no test for a dataset met before: on a cycle the frames nest
\* until the interpreter raises RecursionError.
RECURSIVE datasets_and_parents(_, _, _)
datasets_and_parents(d, i, depth) ==
    IF depth > RecursionLimit THEN [out |-> << >>, err |-> TRUE]
    ELSE IF i > Len(obj.dataset[d].parents) THEN [out |-> <<d>>, err |-> FALSE]
    ELSE LET r == datasets_and_parents(obj.dataset[d].parents[i], 1, depth + 1)
         IN  IF r.err THEN r
             ELSE LET rest == datasets_and_parents(d, i + 1, depth)
                  IN  [out |-> r.out \o rest.out, err |-> rest.err]

\* The outer loop of _all_datasets from the k-th dataset of D on.
RECURSIVE all_datasets_from(_, _)
all_datasets_from(D, k) ==
    IF k > Len(D) THEN [out |-> << >>, err |-> FALSE]
    ELSE LET r == datasets_and_parents(D[k], 1, 1)
         IN  IF r.err THEN r
             ELSE LET rest == all_datasets_from(D, k + 1)
                  IN  [out |-> r.out \o rest.out, err |-> rest.err]

\* System._all_datasets
AllDatasets == all_datasets_from(AllDatasetsExceptParents, 1)

\* dataset.parents.append(p)
ParentsAppend(d, p) ==
    /\ Filling
    /\ Len(obj.dataset[d].parents) < MaxParents
    /\ obj' = [obj EXCEPT !.dataset[d].parents = Append(@, p)]
    /\ UNCHANGED <<rvars, sys, call>>

\* s.orphan_datasets.append(d)
OrphanDatasetsAppend(d) ==
    /\ Filling
    /\ Len(sys.orphan_datasets) < MaxListLen
    /\ sys' = [sys EXCEPT !.orphan_datasets = Append(@, d)]
    /\ UNCHANGED <<rvars, obj, call>>

\* The record of a call of _all_datasets that gave r.
DatasetsOutcome(r) ==
    [op |-> "_all_datasets", ret |-> r.out,
     raised |-> IF r.err THEN "RecursionError" ELSE None]

\* list(s._all_datasets())
CallAllDatasets ==
    /\ call' = DatasetsOutcome(AllDatasets)
    /\ UNCHANGED <<rvars, gvars>>

DatasetsNext ==
    \/ \E d, p \in Datasets : ParentsAppend(d, p)
    \/ \E d \in Datasets : OrphanDatasetsAppend(d)
    \/ CallAllDatasets

SpecDatasets == GraphInit /\ [][DatasetsNext]_vars

\* The datasets reachable from d through at most n parent links, d excluded
\* unless it is reached again.
RECURSIVE AncestorsWithin(_, _)
AncestorsWithin(d, n) ==
    IF n = 0 THEN {}
    ELSE LET P == {obj.dataset[d].parents[i] : i \in 1..Len(obj.dataset[d].parents)}
         IN  P \cup UNION {AncestorsWithin(p, n - 1) : p \in P}

Ancestors(d) == AncestorsWithin(d, NumDatasets)

\* No dataset is its own direct or transitive ancestor.
AcyclicParents == \A d \in Datasets : d \notin Ancestors(d)

\* C14: on an acyclic parent graph _all_datasets raises nothing, yields every
\* enumerated dataset and nothing but these and their ancestors, and every
\* occurrence of a dataset is preceded by an occurrence of each of its
\* transitive ancestors.
C14_ParentsFirst ==
    (call.op = "_all_datasets" /\ AcyclicParents) =>
        LET D == AllDatasetsExceptParents
            Enumerated == {D[i] : i \in 1..Len(D)}
        IN  /\ call.raised = None
            /\ {call.ret[k] : k \in 1..Len(call.ret)} =
                   Enumerated \cup UNION {Ancestors(d) : d \in Enumerated}
            /\ \A k \in 1..Len(call.ret) :
                  \A a \in Ancestors(call.ret[k]) :
                      \E j \in 1..(k - 1) : call.ret[j] = a

\* d3 with the parent chain d3 -> d2 -> d1, enumerated once, gave [d1, d2, d3].
C14_Witness ==
    /\ call.op = "_all_datasets"
    /\ sys.orphan_datasets = <<3>>
    /\ obj.dataset[3].parents = <<2>>
    /\ obj.dataset[2].parents = <<1>>
    /\ obj.dataset[1].parents = << >>
    /\ call.ret = <<1, 2, 3>>

\* C15: when an enumerated dataset has a dataset among itself and its
\* ancestors that is its own ancestor, _all_datasets ends by reporting a
\* GraphCycleError.
C15_CycleReported ==
    LET D == AllDatasetsExceptParents
        Walked == {D[i] : i \in 1..Len(D)}
                      \cup UNION {Ancestors(D[i]) : i \in 1..Len(D)}
    IN  (call.op = "_all_datasets" /\ \E d \in Walked : d \in Ancestors(d))
            => call.raised = "GraphCycleError"

(***************************************************************************)
(* Ranges.  An object handed to a comparison is a pair of its kind and     *)
(* the object: <<"range", r>>, <<"entity", e>>, <<"asym", a>>, or          *)
(* <<"none", 0>> for None.                                                 *)
(***************************************************************************)
\* The values a test passes as seq_id_begin and seq_id_end.
MaxSeqId == 2
SeqIds == 0..MaxSeqId

\* The identifiers a dumper or a test assigns to _id.
IdValues == {42, 7}

\* EntityRange.__init__: no test of the bounds.
EntityRange_init(entity, seq_id_begin, seq_id_end) ==
    [cls |-> "EntityRange", entity |-> entity,
     seq_id_range |-> <<seq_id_begin, seq_id_end>>]

\* AsymUnitRange.__init__: no test of the bounds.
AsymUnitRange_init(asym, seq_id_begin, seq_id_end) ==
    [cls |-> "AsymUnitRange", asym |-> asym,
     seq_id_range |-> <<seq_id_begin, seq_id_end>>]

\* Entity.seq_id_range: (1, len(self.sequence))
Entity_seq_id_range(e) == <<1, Len(obj.entity[e].sequence)>>

\* AsymUnit.seq_id_range: (1, len(self.entity.sequence))
AsymUnit_seq_id_range(a) == <<1, Len(obj.entity[obj.asym[a].entity].sequence)>>

\* EntityRange._id: self.entity._id
EntityRange_id(r) == obj.entity[r.entity]._id

\* AsymUnitRange._id that reads the identifier of the asym unit's entity.
AsymUnitRange_id_of_entity(r) == obj.entity[obj.asym[r.asym].entity]._id

\* AsymUnitRange._id: self.asym._id
AsymUnitRange_id(r) == obj.asym[r.asym]._id

\* range._id
Range_id(r) ==
    IF r.cls = "EntityRange" THEN EntityRange_id(r) ELSE AsymUnitRange_id(r)

\* hasattr(x, name) for name in entity, asym, seq_id_range
HasAttr(x, name) ==
    CASE x[1] = "range" ->
            IF obj.range[x[2]].cls = "EntityRange" THEN name # "asym" ELSE TRUE
      [] x[1] = "entity" -> name = "seq_id_range"
      [] x[1] = "asym" -> name # "asym"
      [] OTHER -> FALSE

\* getattr(x, name) where hasattr(x, name)
GetAttr(x, name) ==
    CASE x[1] = "range" ->
            LET r == obj.range[x[2]]
            IN  IF name = "seq_id_range" THEN r.seq_id_range
                ELSE IF name = "asym" THEN r.asym
                ELSE IF r.cls = "EntityRange" THEN r.entity
                ELSE obj.asym[r.asym].entity
      [] x[1] = "entity" -> Entity_seq_id_range(x[2])
      [] OTHER ->
            IF name = "seq_id_range" THEN AsymUnit_seq_id_range(x[2])
            ELSE obj.asym[x[2]].entity

\* EntityRange.__eq__ that compares the entities with == .
EntityRange_eq_by_value(r, other) ==
    IF ~HasAttr(other, "entity") THEN FALSE
    ELSE IF ~EntityEq(obj, r.entity, GetAttr(other, "entity")) THEN FALSE
    ELSE IF ~HasAttr(other, "seq_id_range") THEN FALSE
    ELSE r.seq_id_range = GetAttr(other, "seq_id_range")

\* EntityRange.__eq__: self.entity is other.entity and the intervals are
\* equal; False when reading an attribute of other raises AttributeError.
EntityRange_eq(r, other) ==
    IF ~HasAttr(other, "entity") THEN FALSE
    ELSE IF r.entity # GetAttr(other, "entity") THEN FALSE
    ELSE IF ~HasAttr(other, "seq_id_range") THEN FALSE
    ELSE r.seq_id_range = GetAttr(other, "seq_id_range")

\* AsymUnitRange.__eq__
AsymUnitRange_eq(r, other) ==
    IF ~HasAttr(other, "asym") THEN FALSE
    ELSE IF r.asym # GetAttr(other, "asym") THEN FALSE
    ELSE IF ~HasAttr(other, "seq_id_range") THEN FALSE
    ELSE r.seq_id_range = GetAttr(other, "seq_id_range")

\* range == other
Range_eq(r, other) ==
    IF r.cls = "EntityRange" THEN EntityRange_eq(r, other)
    ELSE AsymUnitRange_eq(r, other)

\* hash() of a tuple of three integers
TupleHash(t) == (t[1] + 2 * t[2] + 3 * t[3]) % HashMod

\* EntityRange.__hash__, AsymUnitRange.__hash__:
\* hash((id(parent), self.seq_id_range))
Range_hash(r) ==
    LET parent == IF r.cls = "EntityRange" THEN r.entity ELSE r.asym
    IN  TupleHash(<<parent, r.seq_id_range[1], r.seq_id_range[2]>>)

\* entity(seq_id_begin, seq_id_end)
EntityCall(e, b, end) ==
    /\ Len(obj.range) < MaxRanges
    /\ obj' = [obj EXCEPT !.range = Append(@, EntityRange_init(e, b, end))]
    /\ call' = [op |-> "Entity.__call__", self |-> e, args |-> <<b, end>>,
                ret |-> Len(obj.range) + 1, raised |-> None]
    /\ UNCHANGED <<rvars, sys>>

\* asym(seq_id_begin, seq_id_end)
AsymUnitCall(a, b, end) ==
    /\ Len(obj.range) < MaxRanges
    /\ obj' = [obj EXCEPT !.range = Append(@, AsymUnitRange_init(a, b, end))]
    /\ call' = [op |-> "AsymUnit.__call__", self |-> a, args |-> <<b, end>>,
                ret |-> Len(obj.range) + 1, raised |-> None]
    /\ UNCHANGED <<rvars, sys>>

\* entity._id = v
SetEntityId(e, v) ==
    /\ obj' = [obj EXCEPT !.entity[e]._id = v]
    /\ call' = [op |-> "Entity._id=", self |-> e, value |-> v]
    /\ UNCHANGED <<rvars, sys>>

\* asym._id = v
SetAsymId(a, v) ==
    /\ obj' = [obj EXCEPT !.asym[a]._id = v]
    /\ call' = [op |-> "AsymUnit._id=", self |-> a, value |-> v]
    /\ UNCHANGED <<rvars, sys>>

\* range._id, which raises AttributeError when the parent has no _id
GetRangeId(i) ==
    /\ call' = [op |-> "Range._id", self |-> i, ret |-> Range_id(obj.range[i]),
                raised |-> IF Range_id(obj.range[i]) = NoAttr
                           THEN "AttributeError" ELSE None]
    /\ UNCHANGED <<rvars, gvars>>

\* range == other
RangeEq(i, other) ==
    /\ call' = [op |-> "Range.__eq__", self |-> i, other |-> other,
                ret |-> Range_eq(obj.range[i], other)]
    /\ UNCHANGED <<rvars, gvars>>

\* hash(range)
RangeHash(i) ==
    /\ call' = [op |-> "Range.__hash__", self |-> i, ret |-> Range_hash(obj.range[i])]
    /\ UNCHANGED <<rvars, gvars>>

\* The objects a range is compared with.
Comparands ==
    {<<"range", i>> : i \in 1..Len(obj.range)}
        \cup {<<"entity", e>> : e \in Entities}
        \cup {<<"asym", a>> : a \in Asyms}
        \cup {<<"none", 0>>}

RangesNext ==
    \/ \E e \in Entities : \E b, end \in SeqIds : EntityCall(e, b, end)
    \/ \E a \in Asyms : \E b, end \in SeqIds : AsymUnitCall(a, b, end)
    \/ \E i \in 1..Len(obj.range) : \E other \in Comparands : RangeEq(i, other)
    \/ \E i \in 1..Len(obj.range) : RangeHash(i)

SpecRanges == GraphInit /\ [][RangesNext]_vars

\* Ranges over the first residue, whose parents are given identifiers.
RangeIdsNext ==
    \/ \E e \in Entities : EntityCall(e, 1, 1)
    \/ \E a \in Asyms : AsymUnitCall(a, 1, 1)
    \/ \E v \in IdValues : SetEntityId(1, v)
    \/ \E a \in Asyms : \E v \in IdValues : SetAsymId(a, v)
    \/ \E i \in 1..Len(obj.range) : GetRangeId(i)

SpecRangeIds == GraphInit /\ [][RangeIdsNext]_vars

\* The sequence range of the parent of a range.
ParentRange(r) ==
    IF r.cls = "EntityRange" THEN Entity_seq_id_range(r.entity)
    ELSE AsymUnit_seq_id_range(r.asym)

\* 1 <= begin <= end <= sequence length
ValidBounds(r) ==
    /\ ParentRange(r)[1] <= r.seq_id_range[1]
    /\ r.seq_id_range[1] <= r.seq_id_range[2]
    /\ r.seq_id_range[2] <= ParentRange(r)[2]

\* C16: no range object has begin > end or a bound outside [1, sequence
\* length], and the construction that was given such bounds raised RangeError.
C16_RangeValidated ==
    /\ \A i \in 1..Len(obj.range) : ValidBounds(obj.range[i])
    /\ (/\ call.op \in {"Entity.__call__", "AsymUnit.__call__"}
        /\ LET len == IF call.op = "Entity.__call__"
                      THEN Entity_seq_id_range(call.self)[2]
                      ELSE AsymUnit_seq_id_range(call.self)[2]
           IN  \/ call.args[1] > call.args[2]
               \/ call.args[1] < 1
               \/ call.args[2] > len)
       => call.raised = "RangeError"

\* C17: reading the _id of a range gives the current _id of its parent (and
\* raises when the parent has none); the range has no _id of its own.
C17_Inv ==
    /\ \A i \in 1..Len(obj.range) : "_id" \notin DOMAIN obj.range[i]
    /\ call.op = "Range._id" =>
          LET r == obj.range[call.self]
              parent == IF r.cls = "EntityRange" THEN obj.entity[r.entity]
                        ELSE obj.asym[r.asym]
          IN  /\ call.ret = parent._id
              /\ (call.raised = None) <=> (parent._id \in IdValues)

\* C17: assigning the _id of a parent is reflected by every range made from
\* it before.
C17_Step ==
    /\ call'.op = "AsymUnit._id=" =>
          \A i \in 1..Len(obj.range) :
              (obj.range[i].cls = "AsymUnitRange" /\ obj.range[i].asym = call'.self)
                  => Range_id(obj.range[i])' = call'.value
    /\ call'.op = "Entity._id=" =>
          \A i \in 1..Len(obj.range) :
              (obj.range[i].cls = "EntityRange" /\ obj.range[i].entity = call'.self)
                  => Range_id(obj.range[i])' = call'.value

\* C17: a range's _id is its parent's current _id at every moment.
C17_IdOfParent == [](C17_Inv) /\ [][C17_Step]_vars

\* A range was made from asym unit 1, the asym unit's _id was set to 7 and
\* then to 42, and the range's _id read 42.
C17_Witness ==
    /\ call.op = "Range._id"
    /\ obj.range[call.self].cls = "AsymUnitRange"
    /\ obj.range[call.self].asym = 1
    /\ obj.entity[obj.asym[1].entity]._id = 7
    /\ call.ret = 42

\* C19: a range equals a range of the same kind exactly when both have the
\* identical parent object and the same interval, and then their hashes are
\* equal; it equals no object that lacks the parent attribute or the
\* interval attribute.
C19_RangeEquality ==
    call.op = "Range.__eq__" =>
        LET r == obj.range[call.self]
            parentattr == IF r.cls = "EntityRange" THEN "entity" ELSE "asym"
        IN  /\ (call.other[1] = "range" /\ obj.range[call.other[2]].cls = r.cls) =>
                  LET q == obj.range[call.other[2]]
                  IN  /\ call.ret <=>
                            /\ (IF r.cls = "EntityRange" THEN r.entity = q.entity
                                ELSE r.asym = q.asym)
                            /\ r.seq_id_range = q.seq_id_range
                      /\ call.ret => Range_hash(r) = Range_hash(q)
            /\ call.other[1] = "none" => ~call.ret
            /\ (call.other[1] = "entity" \/ (call.other[1] = "asym" /\ r.cls = "AsymUnitRange"))
                  => ~call.ret

\* Two entity ranges with the same interval over two distinct entities of
\* the same sequence were compared and are unequal.
C19_Witness ==
    /\ call.op = "Range.__eq__"
    /\ call.other[1] = "range"
    /\ call.other[2] # call.self
    /\ obj.range[call.self].cls = "EntityRange"
    /\ obj.range[call.other[2]].cls = "EntityRange"
    /\ obj.range[call.self].entity # obj.range[call.other[2]].entity
    /\ EntityEq(obj, obj.range[call.self].entity, obj.range[call.other[2]].entity)
    /\ obj.range[call.self].seq_id_range = obj.range[call.other[2]].seq_id_range
    /\ call.ret = FALSE

(***************************************************************************)
(* Software equality.  Software objects live in the heap, as in the reader.*)
(***************************************************************************)
\* ihm.Software(name, classification, description, location, type, version)
Software_init6(initargs) ==
    [Software_init(SubSeq(initargs, 1, 4)) EXCEPT !.type = initargs[5],
                                                  !.version = initargs[6]]

\* Software._eq_vals that takes the description in as well.
Software_eq_vals_with_description(attrs) ==
    <<attrs.name, attrs.version, attrs.description>>

\* Software._eq_vals: (self.name, self.version)
Software_eq_vals(attrs) == <<attrs.name, attrs.version>>

\* Software.__eq__
Software_eq(a, b) == Software_eq_vals(a) = Software_eq_vals(b)

\* Software.__hash__: hash(self._eq_vals()), the hash of a tuple of strings
Software_hash(a) ==
    LET t == Software_eq_vals(a)
    IN  (StrHash(t[1]) + StrHash(t[Len(t)])) % HashMod

\* The arguments the Software objects are constructed with: two names, two
\* versions, and every other argument in two values.
SoftwareArgs ==
    LET base == <<"c", "d", "l", "program">>
        others == {base} \cup {[base EXCEPT ![k] = "other"] : k \in 1..4}
    IN  {<<n>> \o SubSeq(x, 1, 3) \o <<x[4], v>> :
            n \in {"imp", "modeller"}, v \in {None, "2"}, x \in others}

SoftwareInit ==
    /\ ReaderIdle
    /\ sys = << >>
    /\ obj = << >>
    /\ call = NoCall

\* ihm.Software(*initargs)
SoftwareNew(initargs) ==
    /\ Len(heap) < MaxObjs
    /\ heap' = Append(heap, [cls |-> "Software", attrs |-> Software_init6(initargs)])
    /\ call' = [op |-> "Software", ret |-> Len(heap) + 1]
    /\ UNCHANGED <<dicts, lists, pc, gvars>>

\* a == b for two Software objects
SoftwareEq(a, b) ==
    /\ call' = [op |-> "Software.__eq__", self |-> a, other |-> b,
                ret |-> Software_eq(heap[a].attrs, heap[b].attrs)]
    /\ UNCHANGED <<rvars, gvars>>

\* hash(a)
SoftwareHash(a) ==
    /\ call' = [op |-> "Software.__hash__", self |-> a,
                ret |-> Software_hash(heap[a].attrs)]
    /\ UNCHANGED <<rvars, gvars>>

SoftwareNext ==
    \/ \E initargs \in SoftwareArgs : SoftwareNew(initargs)
    \/ \E a, b \in 1..Len(heap) : SoftwareEq(a, b)
    \/ \E a \in 1..Len(heap) : SoftwareHash(a)

SpecSoftware == SoftwareInit /\ [][SoftwareNext]_vars

\* C18: two Software objects are equal exactly when their names are equal
\* and their versions are equal, whatever their classification, description,
\* location and type; and equal Software objects have equal hashes.
C18_SoftwareEquality ==
    /\ call.op = "Software.__eq__" =>
          LET a == heap[call.self].attrs
              b == heap[call.other].attrs
          IN  /\ call.ret <=> (a.name = b.name /\ a.version = b.version)
              /\ call.ret => Software_hash(a) = Software_hash(b)
    /\ call.op = "Software.__hash__" =>
          \A b \in 1..Len(heap) :
              (/\ heap[b].attrs.name = heap[call.self].attrs.name
               /\ heap[b].attrs.version = heap[call.self].attrs.version)
                  => Software_hash(heap[b].attrs) = call.ret

\* Two Software objects constructed independently, with the same name and
\* version and different descriptions, compared equal.
C18_Witness ==
    /\ call.op = "Software.__eq__"
    /\ call.self # call.other
    /\ heap[call.self].attrs.name = heap[call.other].attrs.name
    /\ heap[call.self].attrs.version = heap[call.other].attrs.version
    /\ heap[call.self].attrs.description # heap[call.other].attrs.description
    /\ call.ret = TRUE

(***************************************************************************)
(* Every traversal of System, called by name.                              *)
(***************************************************************************)
\* hasattr(dataset, 'location') and dataset.location
HasLocation(c) == c # NoAttr /\ Truthy(c)

\* The chain of _all_locations, given what _all_datasets yields: the chain
\* is consumed up to the point where _all_datasets raises, if it does.
locations_chain(D) ==
    LET first == sys.locations
                   \o SelectSeq(MapSeq(D.out, LAMBDA d : obj.dataset[d].location),
                                HasLocation)
    IN  IF D.err THEN [out |-> first, err |-> TRUE]
        ELSE [out |-> first
                  \o SelectSeq(MapSeq(sys.ensembles, LAMBDA e : obj.ensemble[e].file),
                               Truthy)
                  \o SelectSeq(MapSeq(Flatten(MapSeq(sys.ensembles,
                                                     LAMBDA e : obj.ensemble[e].densities)),
                                      LAMBDA n : obj.density[n].file),
                               Truthy)
                  \o SelectSeq(MapSeq(AllTemplates,
                                      LAMBDA t : obj.template[t].alignment_file),
                               Truthy),
              err |-> FALSE]

\* System._all_locations
AllLocations == locations_chain(AllDatasets)

\* A traversal that cannot raise, as a record like the ones that can.
Yields(seq) == [out |-> seq, err |-> FALSE]

\* _all_model_groups as a generator made once and handed out again: iterating
\* it a second time yields nothing.
AllModelGroups_exhausted ==
    IF call.op = "_all_model_groups" THEN << >>
    ELSE Flatten(Flatten(sys.state_groups))

\* list(s._all_model_groups()): a new generator over the lists on every call
AllModelGroups_called == AllModelGroups

EnumNames ==
    {"_all_model_groups", "_all_models", "_all_representations", "_all_segments",
     "_all_starting_models", "_all_protocols", "_all_protocol_steps",
     "_all_analysis_steps", "_all_assemblies", "_all_dataset_groups",
     "_all_templates", "_all_datasets_except_parents", "_all_datasets",
     "_all_locations", "_all_citations"}

\* getattr(s, name)()
Enumerate(name) ==
    CASE name = "_all_model_groups" -> Yields(AllModelGroups_called)
      [] name = "_all_models" -> Yields(AllModels)
      [] name = "_all_representations" -> Yields(AllRepresentations)
      [] name = "_all_segments" -> Yields(AllSegments)
      [] name = "_all_starting_models" -> Yields(AllStartingModels)
      [] name = "_all_protocols" -> Yields(AllProtocols)
      [] name = "_all_protocol_steps" -> Yields(AllProtocolSteps)
      [] name = "_all_analysis_steps" -> Yields(AllAnalysisSteps)
      [] name = "_all_assemblies" -> Yields(AllAssemblies)
      [] name = "_all_dataset_groups" -> Yields(AllDatasetGroups)
      [] name = "_all_templates" -> Yields(AllTemplates)
      [] name = "_all_datasets_except_parents" -> Yields(AllDatasetsExceptParents)
      [] name = "_all_datasets" -> AllDatasets
      [] name = "_all_locations" -> AllLocations
      [] OTHER -> Yields(AllCitations)

\* A System in which every traversal has something to walk.
EnumInit ==
    /\ ReaderIdle
    /\ sys = [System_lists EXCEPT !.state_groups = << << <<1, 2>>, <<2>> >> >>,
                                  !.restraints = <<1>>,
                                  !.citations = <<2>>,
                                  !.locations = <<1>>,
                                  !.ensembles = <<1>>,
                                  !.orphan_assemblies = <<2>>,
                                  !.orphan_dataset_groups = <<2>>]
    /\ obj = [Objects_init EXCEPT
                 !.model_group[1] = <<1, 2>>,
                 !.model_group[2] = <<2, 1>>,
                 !.model[1] = [protocol |-> 1, representation |-> 1, assembly |-> 2],
                 !.assembly[2] = << <<"asym", 1>> >>,
                 !.segment[1].starting_model = 1,
                 !.protocol[1] = [steps |-> <<1>>, analyses |-> <<1>>],
                 !.analysis[1] = [steps |-> <<1>>],
                 !.step[1] = [assembly |-> 2, dataset_group |-> 1],
                 !.astep[1] = [assembly |-> 1, dataset_group |-> 2],
                 !.dataset_group[1] = <<1>>,
                 !.starting_model[1] = [dataset |-> 2, templates |-> <<1>>],
                 !.template[1] = [dataset |-> 1, alignment_file |-> 2],
                 !.restraint[1] = [fitting_method_citation_id |-> 1,
                                   assembly |-> 2, dataset |-> 2],
                 !.dataset[1].location = 2,
                 !.ensemble[1] = [file |-> 1, densities |-> <<1>>],
                 !.density[1] = [file |-> 2]]
    /\ call = NoCall

\* dataset.parents.append(p) on a dataset that has no parent yet
FirstParentAppend(d, p) ==
    /\ obj.dataset[d].parents = << >>
    /\ ParentsAppend(d, p)

\* The record of list(getattr(s, name)()) that gave r; `again` tells that
\* the call before was the same.
Outcome(name, r) ==
    [op |-> name, ret |-> r.out,
     raised |-> IF r.err THEN "RecursionError" ELSE None,
     again |-> call.op = name]

CallEnum(name) ==
    /\ call' = Outcome(name, Enumerate(name))
    /\ UNCHANGED <<rvars, gvars>>

EnumNext ==
    \/ \E m \in {1, 2} : \E x \in Others \cup {NoneRef} : SetProtocol(m, x)
    \/ \E d \in Datasets : OrphanDatasetsAppend(d)
    \/ \E p \in Datasets : FirstParentAppend(2, p)
    \/ \E name \in EnumNames : CallEnum(name)

SpecEnum == EnumInit /\ [][EnumNext]_vars

\* C20: enumerating again on the graph as it is gives what the last
\* enumeration gave.
C20_Inv ==
    call.op \in EnumNames =>
        [Outcome(call.op, Enumerate(call.op)) EXCEPT !.again = call.again] = call

\* C20: an enumeration leaves the graph as it is, and an enumeration called
\* twice in a row yields the same sequence and the same outcome.
C20_Step ==
    call'.op \in EnumNames =>
        /\ UNCHANGED gvars
        /\ call.op = call'.op =>
              (call'.ret = call.ret /\ call'.raised = call.raised)

enumeration_effect_draining(name, k) ==
    [sys |-> [sys EXCEPT !.orphan_assemblies = << >>], obj |-> obj]

\* The graph after k elements of getattr(s, name)() were consumed: the
\* generators read the lists and attributes and assign to none of them
\* (seen_models and seen_objs are locals of the generator).
enumeration_effect(name, k) == [sys |-> sys, obj |-> obj]

\* The record of a traversal that gave r, of which k elements were consumed;
\* the failure is met only by a consumer that goes to the end.
Taken(name, r, k) ==
    [op |-> name, ret |-> SubSeq(r.out, 1, k), taken |-> k, total |-> Len(r.out),
     raised |-> IF r.err /\ k = Len(r.out) THEN "RecursionError" ELSE None]

\* The same with r as it is handed over: k of its elements are consumed.
take(name, r, k) ==
    /\ call' = Taken(name, r, k)
    /\ sys' = enumeration_effect(name, k).sys
    /\ obj' = enumeration_effect(name, k).obj
    /\ UNCHANGED rvars

\* Some number of elements of r, from none to all.
take_some(name, r) == \E k \in 0..Len(r.out) : take(name, r, k)

\* it = getattr(s, name)(); some times next(it); then the iterator is dropped
TakeEnum(name) == take_some(name, Enumerate(name))

PureNext ==
    \/ \E m \in {1, 2} : \E x \in Others \cup {NoneRef} : SetProtocol(m, x)
    \/ \E p \in Datasets : FirstParentAppend(2, p)
    \/ \E name \in EnumNames : TakeEnum(name)

SpecPure == EnumInit /\ [][PureNext]_vars

\* C21: a traversal _all_*(), consumed to its end or abandoned part way,
\* leaves every list of the System and every object unchanged.
C21_Step == call'.op \in EnumNames => (sys' = sys /\ obj' = obj)

Software_fields ==
    {"name", "classification", "description", "location", "type", "version"}

C22_Step ==
    (/\ call'.op = "_software"
     /\ DOMAIN call'.data = {"pdbx_ordinal"}
     /\ call'.data["pdbx_ordinal"] \notin DOMAIN Cache(SystemReader_software(call'.s)))
    => LET l == System_software(SystemReader_system(call'.s))
           o == Len(heap')
       IN  /\ call'.raised = "none"
           /\ Len(heap') = Len(heap) + 1
           /\ lists'[l] = Append(lists[l], o)
           /\ heap'[o].attrs["_id"] = call'.data["pdbx_ordinal"]
           /\ \A f \in Software_fields : heap'[o].attrs[f] = None

\* C22: a _software Record that has a new pdbx_ordinal and no other field
\* raises nothing and creates one object, appended to system.software and
\* stamped with the id, whose data fields (name, classification, description,
\* location, type, version) are all None.
C22_PlaceholderEmpty == [][C22_Step]_vars

(***************************************************************************)
(* read() as a whole: what it returns and where each field ends up.        *)
(***************************************************************************)
\* The Software objects of system.software that carry row identifier objid.
SoftwareWithId(h, l, objid) ==
    {i \in 1..Len(l) : h[l[i]].attrs["_id"] = objid}

C23_Step ==
    LET s == call'.s
        y == SystemReader_system(s)
    IN  /\ call'.op = "_struct" =>
            /\ heap'[y].attrs["id"] =
                  IF "entry_id" \in DOMAIN call'.data
                  THEN call'.data["entry_id"] ELSE heap[y].attrs["id"]
            /\ heap'[y].attrs["title"] =
                  IF "title" \in DOMAIN call'.data
                  THEN call'.data["title"] ELSE heap[y].attrs["title"]
        /\ (call'.op = "_software" /\ call'.raised = "none") =>
            LET l == lists'[System_software(y)]
                W == SoftwareWithId(heap', l, call'.data["pdbx_ordinal"])
            IN  /\ Cardinality(W) = 1
                /\ \A i \in W : \A j \in 1..Len(SoftwareTable.keys) :
                      LET k == SoftwareTable.keys[j]
                      IN  k \in DOMAIN call'.data
                              => heap'[l[i]].attrs[k] = call'.data[k]
        /\ call'.op = "read" =>
            /\ call'.ret = <<y>>
            /\ heap'[y].cls = "System"
            /\ heap'[y] = heap[y] /\ lists' = lists

\* C23: read() returns a list of exactly one System.  The System starts with
\* id 'model' and title None; a _struct Record stores entry_id as id and
\* title as title and leaves what it does not supply as it was; a _software
\* Record with a pdbx_ordinal leaves exactly one Software of that _id in
\* system.software, holding the Record's value in each listed field.
C23_ReadMapping ==
    /\ heap[SystemReader_system(ReadSession)].attrs = [id |-> "model", title |-> None]
    /\ [][C23_Step]_vars

\* read() has returned its one System after a _struct Record that supplied
\* only a title (id is still the default) and a _software Record that
\* replaced the default type.
C23_Witness ==
    /\ call.op = "read"
    /\ Len(call.ret) = 1
    /\ heap[call.ret[1]].attrs["id"] = "model"
    /\ heap[call.ret[1]].attrs["title"] = "a"
    /\ \E i \in 1..Len(lists[System_software(call.ret[1])]) :
          LET o == lists[System_software(call.ret[1])][i]
          IN  heap[o].attrs["type"] = "a" /\ heap[o].attrs["name"] = "b"

(***************************************************************************)
(* What _all_datasets must contain.                                        *)
(***************************************************************************)
\* restraint.dataset = x
SetRestraintDataset(r, x) ==
    /\ Filling
    /\ obj' = [obj EXCEPT !.restraint[r].dataset = x]
    /\ UNCHANGED <<rvars, sys, call>>

WrittenNext ==
    \/ \E d \in {1, 2} : \E p \in Datasets : FirstParentAppend(d, p)
    \/ \E p \in Datasets : ParentsAppend(NumDatasets, p)
    \/ \E d \in Datasets : OrphanDatasetsAppend(d)
    \/ \E x \in {NoneRef, NumDatasets} : SetRestraintDataset(1, x)
    \/ CallAllDatasets

SpecWritten == EnumInit /\ [][WrittenNext]_vars

RECURSIVE SumSeq(_)
SumSeq(q) == IF q = << >> THEN 0 ELSE Head(q) + SumSeq(Tail(q))

\* The number of paths of at most n parent links that lead from dataset s to
\* dataset d (the path of no link from d to itself included).
RECURSIVE PathCount(_, _, _)
PathCount(s, d, n) ==
    IF s = d THEN 1
    ELSE IF n = 0 THEN 0
    ELSE SumSeq([i \in 1..Len(obj.dataset[s].parents) |->
                    PathCount(obj.dataset[s].parents[i], d, n - 1)])

\* The dataset groups of the claim: orphans and those of protocol steps and
\* of analysis steps.
C24_Groups ==
    sys.orphan_dataset_groups
    \o MapSeq(AllProtocolSteps, LAMBDA t : obj.step[t].dataset_group)
    \o MapSeq(AllAnalysisSteps, LAMBDA t : obj.astep[t].dataset_group)

\* Every reference to a dataset that the claim lists, one entry per owner.
C24_References ==
    sys.orphan_datasets
    \o Flatten(MapSeq(SelectSeq(C24_Groups, Truthy), LAMBDA g : obj.dataset_group[g]))
    \o SelectSeq(MapSeq(AllStartingModels, LAMBDA m : obj.starting_model[m].dataset),
                 Truthy)
    \o SelectSeq(MapSeq(sys.restraints, LAMBDA r : obj.restraint[r].dataset), Truthy)
    \o SelectSeq(MapSeq(AllTemplates, LAMBDA t : obj.template[t].dataset), Truthy)

\* How often d must be yielded when the references are R: once per path
\* from a reference to d.
C24_Required(R, d) ==
    SumSeq([i \in 1..Len(R) |-> PathCount(R[i], d, NumDatasets)])

C24_Holds(R, ret) ==
    /\ \A i \in 1..Len(R) : \E k \in 1..Len(ret) : ret[k] = R[i]
    /\ \A i \in 1..Len(R) : \A a \in Ancestors(R[i]) :
          \E k \in 1..Len(ret) : ret[k] = a
    /\ \A d \in Datasets :
          Cardinality({k \in 1..Len(ret) : ret[k] = d}) >= C24_Required(R, d)

\* C24: a call of _all_datasets that returns its sequence yields every
\* dataset of orphan_datasets, of every dataset group (orphan, of a protocol
\* step, of an analysis step) and every dataset that a starting model, a
\* restraint or a template has, each with all its transitive parents, and
\* yields a dataset at least once per path that leads to it.
C24_AllWritten ==
    (call.op = "_all_datasets" /\ call.raised = None)
        => C24_Holds(C24_References, call.ret)

\* d3, an orphan and the restraint's dataset, has parents [d1, d2] and d2 has
\* parent d1: d1 is reached along two paths from each reference to d3 and
\* was yielded at least four times.
C24_Witness ==
    /\ call.op = "_all_datasets"
    /\ call.raised = None
    /\ sys.orphan_datasets = <<NumDatasets>>
    /\ obj.restraint[1].dataset = NumDatasets
    /\ obj.dataset[NumDatasets].parents = <<1, 2>>
    /\ obj.dataset[2].parents = <<1>>
    /\ Cardinality({k \in 1..Len(call.ret) : call.ret[k] = 1}) >= 4

(***************************************************************************)
(* The order and the multiplicity of _all_assemblies.                      *)
(***************************************************************************)
\* The assembly attribute of every owner in the order the claim gives: the
\* models of _all_models, the protocol steps, the analysis steps, the
\* restraints.
C25_Owned ==
    MapSeq(AllModels, LAMBDA gm : obj.model[gm[2]].assembly)
    \o MapSeq(AllProtocolSteps, LAMBDA t : obj.step[t].assembly)
    \o MapSeq(AllAnalysisSteps, LAMBDA t : obj.astep[t].assembly)
    \o MapSeq(sys.restraints, LAMBDA r : obj.restraint[r].assembly)

\* How often x occurs in q.
Count(q, x) == Cardinality({k \in 1..Len(q) : q[k] = x})

C25_Holds(owned, ret) ==
    /\ ret = <<sys.complete_assembly>> \o sys.orphan_assemblies
               \o SelectSeq(owned, LAMBDA x : x # NoneRef /\ obj.assembly[x] # << >>)
    /\ \A x \in Assemblies :
          Count(ret, x) = (IF x = sys.complete_assembly THEN 1 ELSE 0)
                          + Count(sys.orphan_assemblies, x)
                          + (IF obj.assembly[x] # << >> THEN Count(owned, x) ELSE 0)
    /\ \A k \in 1..Len(ret) : ret[k] # NoneRef

\* C25: _all_assemblies yields the complete assembly, then orphan_assemblies,
\* then the assembly of each model of _all_models, of each protocol step, of
\* each analysis step and of each restraint, in that order; an owner whose
\* assembly is None or empty is skipped and nothing else is left out, so an
\* assembly is yielded once for each owner that refers to it.
C25_OrderNoDedup ==
    call.op = "_all_assemblies" => C25_Holds(C25_Owned, call.ret)

\* The model and the restraint both own assembly 1, the protocol step owns
\* the empty assembly 2 and the analysis step owns none: assembly 1 was
\* yielded once as complete assembly and once per owner, assembly 2 only as
\* an orphan.
C25_Witness ==
    /\ call.op = "_all_assemblies"
    /\ sys.orphan_assemblies = <<2>>
    /\ sys.restraints = <<1>>
    /\ obj.model[1].assembly = 1 /\ obj.restraint[1].assembly = 1
    /\ obj.step[1].assembly = 2 /\ obj.astep[1].assembly = NoneRef
    /\ obj.assembly[1] # << >> /\ obj.assembly[2] = << >>
    /\ call.ret = <<1, 2, 1, 1>>

(***************************************************************************)
(* Duplicates of a model group.                                            *)
(***************************************************************************)
\* The places <<i, j, k>> of the nesting at which model group g stands:
\* state group i, state j, entry k.
Occurrences(g) ==
    {p \in (1..MaxStateGroups) \X (1..MaxStates) \X (1..MaxGroupsPerState) :
        /\ p[1] <= Len(sys.state_groups)
        /\ p[2] <= Len(sys.state_groups[p[1]])
        /\ p[3] <= Len(sys.state_groups[p[1]][p[2]])
        /\ sys.state_groups[p[1]][p[2]][p[3]] = g}

\* The entries of the nesting before place p, in nesting order.
Before(p) ==
    {q \in UNION {Occurrences(g) : g \in Groups} :
        \/ q[1] < p[1]
        \/ q[1] = p[1] /\ q[2] < p[2]
        \/ q[1] = p[1] /\ q[2] = p[2] /\ q[3] < p[3]}

C26_Groups(ret) ==
    /\ Len(ret) = Cardinality(UNION {Occurrences(g) : g \in Groups})
    /\ \A g \in Groups : \A p \in Occurrences(g) :
          ret[Cardinality(Before(p)) + 1] = g
    /\ \A g \in Groups : Count(ret, g) = Cardinality(Occurrences(g))

C26_Models(ret) ==
    \A g \in Groups : \A i \in 1..Len(obj.model_group[g]) :
        Count(ret, <<g, obj.model_group[g][i]>>) = Cardinality(Occurrences(g))

\* C26: _all_model_groups yields the model group of every place of the
\* nesting, state group by state group, state by state, entry by entry, so a
\* group that stands at n places is yielded n times; and _all_models yields
\* each model of such a group n times, once for each place.
C26_GroupDuplicatesKept ==
    /\ call.op = "_all_model_groups" => C26_Groups(call.ret)
    /\ call.op = "_all_models" => C26_Models(call.ret)

(***************************************************************************)
(* _remove_identical on a list, as the test calls it.  The elements are    *)
(* plain objects held by the list (dicts in the test): any two of them     *)
(* that OtherEq relates compare equal, and none of them is hashed, since   *)
(* the function keys seen_objs by id(obj).                                 *)
(***************************************************************************)
MaxGenLen == 6

IdenticalInit ==
    /\ ReaderIdle
    /\ sys = << >>
    /\ obj = [gen |-> << >>]
    /\ call = NoCall

\* gen.append(x)
GenAppend(x) ==
    /\ Filling
    /\ Len(obj.gen) < MaxGenLen
    /\ obj' = [obj EXCEPT !.gen = Append(@, x)]
    /\ UNCHANGED <<rvars, sys, call>>

\* list(ihm._remove_identical(gen))
CallRemoveIdentical ==
    /\ call' = [op |-> "_remove_identical", gen |-> obj.gen,
                ret |-> remove_identical(obj.gen, 1, {}), raised |-> None]
    /\ UNCHANGED <<rvars, gvars>>

IdenticalNext ==
    \/ \E x \in Others : GenAppend(x)
    \/ CallRemoveIdentical

SpecIdentical == IdenticalInit /\ [][IdenticalNext]_vars

\* C27: _remove_identical(gen) raises nothing and returns gen without the
\* later occurrences of an object that occurred before, in the order of
\* gen: no object is returned twice, every object of gen is returned, also
\* one that equals an earlier object, and the objects keep the order of
\* their first occurrences.
C27_RemoveIdentical ==
    call.op = "_remove_identical" =>
        /\ call.raised = None
        /\ call.ret = FirstOccurrences(call.gen)
        /\ NoRepeat(call.ret)
        /\ AllYielded(call.gen, call.ret)
        /\ \A j, k \in 1..Len(call.ret) :
              j < k => \E a \in 1..Len(call.gen) :
                          /\ call.gen[a] = call.ret[j]
                          /\ \A b \in 1..a : call.gen[b] # call.ret[k]

\* [x, x, y] with x and y equal and distinct gave [x, y].
C27_Witness ==
    /\ call.op = "_remove_identical"
    /\ call.gen = <<1, 1, NumProtocols>>
    /\ OtherEq(1, NumProtocols)
    /\ call.ret = <<1, NumProtocols>>

(***************************************************************************)
(* ihm.flr: Experiment.  An Instrument, an ExpSetting or a Sample is the   *)
(* value of its __dict__, which is all its __eq__ compares; None is the    *)
(* argument left out.                                                      *)
(***************************************************************************)
MaxEntries == 2

\* The interpreters the package runs on (it handles both: see the urllib
\* import of ihm/__init__.py).
PythonMajor == {2, 3}

FlrValues == {"a", "b"}
DetailValues == {None, "x"}

\* x != None for an argument x.  The flr classes define __eq__ as
\* self.__dict__ == other.__dict__ (ihm.Entity as self.sequence ==
\* other.sequence) and no __ne__: on Python 3 `!=` calls __eq__, which
\* raises AttributeError since None has no such attribute; on Python 2 `!=`
\* does not use __eq__ and an object differs from None.
ne_None(x, py) ==
    IF x = None THEN "False"
    ELSE IF py = 3 THEN "AttributeError"
    ELSE "True"

\* a != None and b != None and ...: left to right, stopping at the first
\* that is false or raises.
RECURSIVE all_ne_None(_, _, _)
all_ne_None(xs, k, py) ==
    IF k > Len(xs) THEN "True"
    ELSE IF ne_None(xs[k], py) = "True" THEN all_ne_None(xs, k + 1, py)
    ELSE ne_None(xs[k], py)

Experiment_empty ==
    [instrument_list |-> << >>, exp_setting_list |-> << >>,
     sample_list |-> << >>, details_list |-> << >>]

\* Experiment.add_entry
Experiment_add_entry(self, instrument, exp_setting, sample, details) ==
    [instrument_list |-> Append(self.instrument_list, instrument),
     exp_setting_list |-> Append(self.exp_setting_list, exp_setting),
     sample_list |-> Append(self.sample_list, sample),
     details_list |-> Append(self.details_list, details)]

\* Experiment.__init__: the exception raised, if any, and the object.
Experiment_init(instrument, exp_setting, sample, details, py) ==
    LET t == all_ne_None(<<instrument, exp_setting, sample>>, 1, py)
    IN  IF t = "AttributeError"
        THEN [raised |-> "AttributeError", self |-> Experiment_empty]
        ELSE [raised |-> None,
              self |-> IF t = "True"
                       THEN Experiment_add_entry(Experiment_empty, instrument,
                                                 exp_setting, sample, details)
                       ELSE Experiment_empty]

\* Experiment.contains, from index i on (the arguments and the entries are
\* objects of the flr classes).
RECURSIVE Experiment_contains(_, _, _, _, _)
Experiment_contains(self, instrument, exp_setting, sample, i) ==
    IF i > Len(self.instrument_list) THEN FALSE
    ELSE IF /\ instrument = self.instrument_list[i]
            /\ exp_setting = self.exp_setting_list[i]
            /\ sample = self.sample_list[i]
         THEN TRUE
    ELSE Experiment_contains(self, instrument, exp_setting, sample, i + 1)

ExperimentInit ==
    /\ ReaderIdle
    /\ sys = << >>
    /\ obj = [experiment |-> << >>]
    /\ call = NoCall

\* x = Experiment(instrument, exp_setting, sample, details)
ExperimentNew(instrument, exp_setting, sample, details, py) ==
    /\ obj.experiment = << >>
    /\ LET r == Experiment_init(instrument, exp_setting, sample, details, py)
       IN  /\ obj' = IF r.raised = None
                     THEN [obj EXCEPT !.experiment = <<r.self>>]
                     ELSE obj
           /\ call' = [op |-> "Experiment",
                       args |-> <<instrument, exp_setting, sample>>,
                       raised |-> r.raised]
    /\ UNCHANGED <<rvars, sys>>

\* x.add_entry(instrument, exp_setting, sample, details)
ExperimentAddEntry(instrument, exp_setting, sample, details) ==
    /\ Len(obj.experiment) = 1
    /\ Len(obj.experiment[1].instrument_list) < MaxEntries
    /\ obj' = [obj EXCEPT !.experiment[1] =
                  Experiment_add_entry(@, instrument, exp_setting, sample, details)]
    /\ call' = [op |-> "add_entry", args |-> <<instrument, exp_setting, sample>>,
                raised |-> None]
    /\ UNCHANGED <<rvars, sys>>

\* x.contains(instrument, exp_setting, sample)
ExperimentContains(instrument, exp_setting, sample) ==
    /\ Len(obj.experiment) = 1
    /\ call' = [op |-> "contains", args |-> <<instrument, exp_setting, sample>>,
                raised |-> None,
                ret |-> Experiment_contains(obj.experiment[1], instrument,
                                            exp_setting, sample, 1)]
    /\ UNCHANGED <<rvars, gvars>>

ExperimentNext ==
    \/ \E i, e, s \in FlrValues \cup {None} : \E d \in DetailValues :
          \E py \in PythonMajor : ExperimentNew(i, e, s, d, py)
    \/ \E i, e, s \in FlrValues : \E d \in DetailValues :
          ExperimentAddEntry(i, e, s, d)
    \/ \E i, e, s \in FlrValues : ExperimentContains(i, e, s)

SpecExperiment == ExperimentInit /\ [][ExperimentNext]_vars

C28_Inv ==
    \A k \in 1..Len(obj.experiment) :
        LET x == obj.experiment[k]
        IN  /\ Len(x.exp_setting_list) = Len(x.instrument_list)
            /\ Len(x.sample_list) = Len(x.instrument_list)
            /\ Len(x.details_list) = Len(x.instrument_list)

C28_Step ==
    /\ call'.op = "Experiment" =>
          /\ call'.raised = None
          /\ Len(obj'.experiment) = 1
          /\ Len(obj'.experiment[1].instrument_list) =
                IF \A k \in 1..3 : call'.args[k] # None THEN 1 ELSE 0
    /\ call'.op = "add_entry" =>
          Len(obj'.experiment[1].instrument_list)
              = Len(obj.experiment[1].instrument_list) + 1
    /\ call'.op = "contains" =>
          LET x == obj.experiment[1]
          IN  call'.ret = \E k \in 1..Len(x.instrument_list) :
                              /\ x.instrument_list[k] = call'.args[1]
                              /\ x.exp_setting_list[k] = call'.args[2]
                              /\ x.sample_list[k] = call'.args[3]

\* C28: the four lists of an Experiment have one length at all times; the
\* constructor gives an Experiment of one entry when instrument, exp_setting
\* and sample are all given and of no entry otherwise; add_entry adds one
\* entry; contains(i, e, s) is true exactly when an index holds i, e and s,
\* whatever the details.
C28_ExperimentLists == [](C28_Inv) /\ [][C28_Step]_vars

(***************************************************************************)
(* ihm.flr: EntityAssembly.  The entities are ihm.Entity objects, whose    *)
(* __eq__ reads other.sequence and which define no __ne__ either.          *)
(***************************************************************************)
MaxCopies == 2
NumCopies == (0 - 1)..MaxCopies

EntityAssembly_empty == [entity_list |-> << >>, num_copies_list |-> << >>]

\* EntityAssembly.add_entity: the exception raised, if any, and the object.
EntityAssembly_add_entity(self, entity, num_copies) ==
    IF num_copies < 0 THEN [raised |-> "ValueError", self |-> self]
    ELSE [raised |-> None,
          self |-> [entity_list |-> Append(self.entity_list, entity),
                    num_copies_list |-> Append(self.num_copies_list, num_copies)]]

\* EntityAssembly.__init__: entity != None and num_copies != 0, the second
\* a comparison of numbers.
EntityAssembly_init(entity, num_copies, py) ==
    LET t == ne_None(entity, py)
    IN  IF t = "AttributeError"
        THEN [raised |-> "AttributeError", self |-> EntityAssembly_empty]
        ELSE IF t = "True" /\ num_copies # 0
        THEN EntityAssembly_add_entity(EntityAssembly_empty, entity, num_copies)
        ELSE [raised |-> None, self |-> EntityAssembly_empty]

EntityAssemblyInit ==
    /\ ReaderIdle
    /\ sys = << >>
    /\ obj = [entity_assembly |-> << >>]
    /\ call = NoCall

\* x = EntityAssembly(entity, num_copies)
EntityAssemblyNew(entity, num_copies, py) ==
    /\ obj.entity_assembly = << >>
    /\ LET r == EntityAssembly_init(entity, num_copies, py)
       IN  /\ obj' = IF r.raised = None
                     THEN [obj EXCEPT !.entity_assembly = <<r.self>>]
                     ELSE obj
           /\ call' = [op |-> "EntityAssembly", entity |-> entity,
                       num_copies |-> num_copies, raised |-> r.raised]
    /\ UNCHANGED <<rvars, sys>>

\* x.add_entity(entity, num_copies)
EntityAssemblyAddEntity(entity, num_copies) ==
    /\ Len(obj.entity_assembly) = 1
    /\ Len(obj.entity_assembly[1].entity_list) < MaxEntries + 1
    /\ LET r == EntityAssembly_add_entity(obj.entity_assembly[1], entity, num_copies)
       IN  /\ obj' = [obj EXCEPT !.entity_assembly[1] = r.self]
           /\ call' = [op |-> "add_entity", entity |-> entity,
                       num_copies |-> num_copies, raised |-> r.raised]
    /\ UNCHANGED <<rvars, sys>>

EntityAssemblyNext ==
    \/ \E e \in FlrValues \cup {None} : \E n \in NumCopies : \E py \in PythonMajor :
          EntityAssemblyNew(e, n, py)
    \/ \E e \in FlrValues : \E n \in NumCopies : EntityAssemblyAddEntity(e, n)

SpecEntityAssembly == EntityAssemblyInit /\ [][EntityAssemblyNext]_vars

C29_Inv ==
    \A k \in 1..Len(obj.entity_assembly) :
        LET x == obj.entity_assembly[k]
        IN  /\ Len(x.entity_list) = Len(x.num_copies_list)
            /\ \A j \in 1..Len(x.num_copies_list) : x.num_copies_list[j] >= 0

C29_Step ==
    /\ call'.op = "add_entity" =>
          LET x == obj.entity_assembly[1]
              y == obj'.entity_assembly[1]
          IN  IF call'.num_copies < 0
              THEN call'.raised = "ValueError" /\ y = x
              ELSE /\ call'.raised = None
                   /\ y.entity_list = Append(x.entity_list, call'.entity)
                   /\ y.num_copies_list = Append(x.num_copies_list, call'.num_copies)
    /\ call'.op = "EntityAssembly" =>
          IF call'.entity # None /\ call'.num_copies < 0
          THEN call'.raised = "ValueError" /\ obj' = obj
          ELSE /\ call'.raised = None
               /\ Len(obj'.entity_assembly) = 1
               /\ Len(obj'.entity_assembly[1].entity_list) =
                     IF call'.entity # None /\ call'.num_copies # 0 THEN 1 ELSE 0

\* C29: add_entity with a negative count raises ValueError and changes
\* neither list, and with a count of zero or more appends the entity and the
\* count; the two lists have one length and hold no negative count at all
\* times; the constructor gives an EntityAssembly of one entry when an entity
\* is given with a non-zero count (raising ValueError for a negative one) and
\* of no entry otherwise.
C29_EntityAssemblyLists == [](C29_Inv) /\ [][C29_Step]_vars

(***************************************************************************)
(* ihm.flr: FLRData._all_flr_chemical_descriptors.  A chemical descriptor  *)
(* is a number, its identity.                                              *)
(***************************************************************************)
NumFlrGroups == 2
NumRestraints == 3
NumConjugates == 2
MaxRestraints == 2
MaxConjugates == 1

\* PolyProbePosition.__init__: mutated_chem_descriptor and
\* modified_chem_descriptor are set only under their flags.
PolyProbePosition_init(mutation_flag, modification_flag, mutated_chem_descriptor, modified_chem_descriptor) ==
    [mutation_flag |-> mutation_flag,
     modification_flag |-> modification_flag,
     mutated_chem_descriptor |->
         IF mutation_flag THEN mutated_chem_descriptor ELSE NoAttr,
     modified_chem_descriptor |->
         IF modification_flag THEN modified_chem_descriptor ELSE NoAttr]

\* ProbeDescriptor.__init__
ProbeDescriptor_init(reactive_probe_chem_descriptor, chromophore_chem_descriptor) ==
    [reactive_probe_chem_descriptor |-> reactive_probe_chem_descriptor,
     chromophore_chem_descriptor |-> chromophore_chem_descriptor]

\* SampleProbeDetails.__init__ with Probe.__init__
SampleProbeDetails_init(probe_descriptor, poly_probe_position) ==
    [probe |-> [probe_descriptor |-> probe_descriptor],
     poly_probe_position |-> poly_probe_position]

\* The sample probes that exist: without flags, mutated, mutated and modified.
SampleProbes ==
    << SampleProbeDetails_init(ProbeDescriptor_init(1, 2),
                               PolyProbePosition_init(FALSE, FALSE, 4, 5)),
       SampleProbeDetails_init(ProbeDescriptor_init(1, 3),
                               PolyProbePosition_init(TRUE, FALSE, 4, 5)),
       SampleProbeDetails_init(ProbeDescriptor_init(2, 2),
                               PolyProbePosition_init(TRUE, TRUE, 4, 5)) >>

\* FRETDistanceRestraint.__init__ of restraint r: its two sample probes.
FRETDistanceRestraint_init(r) ==
    [sample_probe_1 |-> SampleProbes[((r - 1) % Len(SampleProbes)) + 1],
     sample_probe_2 |-> SampleProbes[(r % Len(SampleProbes)) + 1]]

\* PolyProbeConjugate.__init__ of conjugate c
PolyProbeConjugate_init(c) == [chem_descriptor |-> IF c = 1 THEN 6 ELSE 1]

\* FLRData.__init__ and FRETDistanceRestraintGroup.__init__
FLRData_init ==
    [distance_restraint_group_list |-> << >>,
     poly_probe_conjugate_list |-> << >>,
     flr_chemical_descriptors_list |-> << >>,
     group |-> [g \in 1..NumFlrGroups |-> << >>]]

\* self.flr_chemical_descriptors_list is left as the last call made it.
descriptors_list_kept(self) == self.flr_chemical_descriptors_list

\* self.flr_chemical_descriptors_list = []
descriptors_list_reset(self) == << >>

\* The body of the loop over [dr.sample_probe_1, dr.sample_probe_2]: the
\* list after the appends for one sample probe.
collect_sample_probe(list, this_sample_probe) ==
    LET probe == this_sample_probe.probe
        l1 == Append(list, probe.probe_descriptor.reactive_probe_chem_descriptor)
        l2 == Append(l1, probe.probe_descriptor.chromophore_chem_descriptor)
        this_poly_probe_position == this_sample_probe.poly_probe_position
        l3 == IF this_poly_probe_position.mutation_flag
              THEN Append(l2, this_poly_probe_position.mutated_chem_descriptor)
              ELSE l2
    IN  IF this_poly_probe_position.modification_flag
        THEN Append(l3, this_poly_probe_position.modified_chem_descriptor)
        ELSE l3

\* for dr in drgroup.distance_restraint_list, from the k-th restraint on
RECURSIVE collect_restraints(_, _, _)
collect_restraints(list, restraints, k) ==
    IF k > Len(restraints) THEN list
    ELSE LET dr == FRETDistanceRestraint_init(restraints[k])
         IN  collect_restraints(
                 collect_sample_probe(collect_sample_probe(list, dr.sample_probe_1),
                                      dr.sample_probe_2),
                 restraints, k + 1)

\* for drgroup in self.distance_restraint_group_list, from the k-th group on
RECURSIVE collect_groups(_, _, _)
collect_groups(list, self, k) ==
    IF k > Len(self.distance_restraint_group_list) THEN list
    ELSE collect_groups(
             collect_restraints(list, self.group[self.distance_restraint_group_list[k]], 1),
             self, k + 1)

\* for this_poly_probe_conjugate in self.poly_probe_conjugate_list
RECURSIVE collect_conjugates(_, _, _)
collect_conjugates(list, conjugates, k) ==
    IF k > Len(conjugates) THEN list
    ELSE collect_conjugates(
             Append(list, PolyProbeConjugate_init(conjugates[k]).chem_descriptor),
             conjugates, k + 1)

\* FLRData._all_flr_chemical_descriptors: the list it leaves in
\* self.flr_chemical_descriptors_list and returns.
all_flr_chemical_descriptors(self) ==
    collect_conjugates(collect_groups(descriptors_list_reset(self), self, 1),
                       self.poly_probe_conjugate_list, 1)

FlrInit ==
    /\ ReaderIdle
    /\ sys = << >>
    /\ obj = FLRData_init
    /\ call = NoCall

\* FLRData.add_distance_restraint_group(group g)
AddDistanceRestraintGroup(g) ==
    /\ Filling
    /\ Len(obj.distance_restraint_group_list) < NumFlrGroups
    /\ obj' = [obj EXCEPT !.distance_restraint_group_list = Append(@, g)]
    /\ UNCHANGED <<rvars, sys, call>>

\* FRETDistanceRestraintGroup.add_distance_restraint(restraint r) on group g
AddDistanceRestraint(g, r) ==
    /\ Filling
    /\ Len(obj.group[g]) < MaxRestraints
    /\ obj' = [obj EXCEPT !.group[g] = Append(@, r)]
    /\ UNCHANGED <<rvars, sys, call>>

\* FLRData.add_poly_probe_conjugate(conjugate c)
AddPolyProbeConjugate(c) ==
    /\ Filling
    /\ Len(obj.poly_probe_conjugate_list) < MaxConjugates
    /\ obj' = [obj EXCEPT !.poly_probe_conjugate_list = Append(@, c)]
    /\ UNCHANGED <<rvars, sys, call>>

\* The call of _all_flr_chemical_descriptors that gave list r.
FlrCollected(r) ==
    /\ obj' = [obj EXCEPT !.flr_chemical_descriptors_list = r]
    /\ call' = [op |-> "_all_flr_chemical_descriptors", ret |-> r,
                calls |-> IF call.op = "none" THEN 1 ELSE 2]
    /\ UNCHANGED <<rvars, sys>>

\* flr_data._all_flr_chemical_descriptors()
AllFlrChemicalDescriptors == FlrCollected(all_flr_chemical_descriptors(obj))

FlrNext ==
    \/ \E g \in 1..NumFlrGroups : AddDistanceRestraintGroup(g)
    \/ \E g \in 1..NumFlrGroups : \E r \in 1..NumRestraints :
          AddDistanceRestraint(g, r)
    \/ \E c \in 1..NumConjugates : AddPolyProbeConjugate(c)
    \/ AllFlrChemicalDescriptors

SpecFlr == FlrInit /\ [][FlrNext]_vars

\* The descriptors of one sample probe in the order of the claim.
C30_OfSampleProbe(sp) ==
    <<sp.probe.probe_descriptor.reactive_probe_chem_descriptor,
      sp.probe.probe_descriptor.chromophore_chem_descriptor>>
    \o (IF sp.poly_probe_position.mutation_flag
        THEN <<sp.poly_probe_position.mutated_chem_descriptor>> ELSE << >>)
    \o (IF sp.poly_probe_position.modification_flag
        THEN <<sp.poly_probe_position.modified_chem_descriptor>> ELSE << >>)

\* The list of the claim for the restraint groups and conjugates of x.
C30_Expected(x) ==
    Flatten(MapSeq(
        Flatten(MapSeq(x.distance_restraint_group_list, LAMBDA g : x.group[g])),
        LAMBDA r : C30_OfSampleProbe(FRETDistanceRestraint_init(r).sample_probe_1)
                   \o C30_OfSampleProbe(FRETDistanceRestraint_init(r).sample_probe_2)))
    \o MapSeq(x.poly_probe_conjugate_list,
              LAMBDA c : PolyProbeConjugate_init(c).chem_descriptor)

C30_Step ==
    call'.op = "_all_flr_chemical_descriptors" =>
        /\ call'.ret = C30_Expected(obj)
        /\ obj'.flr_chemical_descriptors_list = call'.ret
        /\ obj' = [obj EXCEPT !.flr_chemical_descriptors_list = call'.ret]
        /\ call.op = "_all_flr_chemical_descriptors" => call'.ret = call.ret

\* C30: _all_flr_chemical_descriptors returns, and leaves in
\* flr_chemical_descriptors_list, the descriptors of the restraint groups in
\* order (per restraint, sample probe 1 then 2: reactive probe, chromophore,
\* mutated if mutation_flag, modified if modification_flag) followed by one
\* per poly-probe conjugate, duplicates kept, whatever the list held before;
\* a second call on unchanged groups and conjugates returns the same list.
C30_Rebuilt == [][C30_Step]_vars

\* The second call in a row on a group of one restraint, whose sample probes
\* are the flagless one and the mutated one, and one conjugate: the six
\* descriptors again, descriptor 1 twice.
C30_Witness ==
    /\ call.op = "_all_flr_chemical_descriptors"
    /\ call.calls = 2
    /\ obj.distance_restraint_group_list = <<1>>
    /\ obj.group[1] = <<1>>
    /\ obj.poly_probe_conjugate_list = <<1>>
    /\ call.ret = <<1, 2, 1, 3, 4, 6>>

====
